---- MODULE Spec2Model ----
(***************************************************************************)
(* Job orchestration engine of ht-automation: the job repository           *)
(* (app/storage/db.py) and the orchestrator JobManager._analyze_job        *)
(* (app/core/job_manager.py), one worker thread per job.                   *)
(*                                                                         *)
(* Every repository statement of the orchestrator is one step, so that a   *)
(* status query between any two statements sees the stored row.            *)
(***************************************************************************)
EXTENDS Integers, Sequences, FiniteSets, TLC

\* ------------------------------------------------------------------ bounds
NumJobs == 1
MaxInserts == 1
MaxAttempts == 4
MaxCallers == 3
NumIds == 2
MaxLines == 3

JobIds == 1..NumJobs

\* Ids a caller of the job manager passes: those create_job returned and
\* ids of its own making.
Ids == 1..NumIds

\* ------------------------------------------------------- program constants
ProgressQueued == 0
ProgressRunning == 5
ProgressResolving == 15
ProgressAnalyzing == 25
ProgressGenerating == 30
ProgressTerminal == 100
ProgressBase == 30
ProgressSpan == 60
OllamaAttempts == 3
MinWords == 200
MaxWords == 10000
MinBodyWords == 50
MinLines == 2

\* Python None / SQL NULL for text columns and keyword arguments, the
\* "progress not given" keyword default, and a NULL timestamp column.
None == "None"
NoProgress == -1
NoTime == 0

TerminalStatuses == {"completed", "completed_with_errors", "failed"}

\* Launch order of the fan-out, job_manager.py lines 127-180.
LaunchOrder == <<"video", "audio", "social", "translation", "seo", "qa">>

Pipelines == {LaunchOrder[i] : i \in 1..Len(LaunchOrder)}

\* enabled = {...}; if fast_mode: enabled = {...}
EnabledPipelines(fast_mode) ==
    IF fast_mode THEN {"video", "social", "seo", "qa"}
                 ELSE {"video", "audio", "social", "translation", "seo", "qa"}

\* Positional parameters each run_<name>_pipeline declares.
PipelineParams(name) ==
    CASE name = "video"       -> 4
      [] name = "audio"       -> 4
      [] name = "social"      -> 4
      [] name = "translation" -> 5
      [] name = "seo"         -> 3
      [] name = "qa"          -> 4

\* Positional arguments the orchestrator passes at each call site.
PipelineArgs(name) ==
    CASE name = "video"       -> 4
      [] name = "audio"       -> 4
      [] name = "social"      -> 4
      [] name = "translation" -> 5
      [] name = "seo"         -> 4
      [] name = "qa"          -> 5

\* Python binds the arguments when an async def is called: too many
\* positional arguments raise TypeError at the call, before any coroutine
\* object exists.
CallRaises(name) == PipelineArgs(name) > PipelineParams(name)

TypeErrorText(name) ==
    "run_" \o name \o "_pipeline() takes " \o ToString(PipelineParams(name))
      \o " positional arguments but " \o ToString(PipelineArgs(name))
      \o " were given"

\* ------------------------------------------------------------------ inputs
\* An article text, by what validate_article reads of it: its word count,
\* its number of non-empty lines, and the words after the first line.
Text(w, l, b) == [words |-> w, lines |-> l, body |-> b]

Texts ==
    { Text(0, 0, 0),
      Text(MinWords - 1, 3, 150),
      Text(MinWords, 2, 190),
      Text(250, 1, 0),
      Text(MinWords, 2, MinBodyWords - 1),
      Text(MaxWords + 1, 5, 9000) }

\* The payload of a url source is the URL, a one-word text.
UrlPayload == Text(1, 1, 0)

SourceTypes == {"paste", "url", "upload", "ftp"}

Audiences == {"General"}

UseStyleFlags == {TRUE}

\* Sets of pipelines whose collaborators are down while a job fans out.
DownSets ==
    {{}} \cup {{n} : n \in Pipelines} \cup {{"video", "qa"}}

\* A lower bound that leaves out its end: word_count <= 200 is rejected.
ValidateArticle_StrictLower(text) ==
    IF text.words = 0 THEN "Article text is empty"
    ELSE IF text.words <= MinWords \/ text.words > MaxWords
         THEN "Article must be between 200 and 10,000 words"
    ELSE IF text.lines < MinLines
         THEN "Article must include a headline and body"
    ELSE IF text.body < MinBodyWords THEN "Article body is too short"
    ELSE None

\* validate_article: the message of the ValidationError it raises, or None.
ValidateArticle(text) ==
    IF text.words = 0 THEN "Article text is empty"
    ELSE IF text.words < MinWords \/ text.words > MaxWords
         THEN "Article must be between 200 and 10,000 words"
    ELSE IF text.lines < MinLines
         THEN "Article must include a headline and body"
    ELSE IF text.body < MinBodyWords THEN "Article body is too short"
    ELSE None

\* -------------------------------------------------------------- variables
VARIABLES
    jobs,            \* table jobs: id -> row
    artifacts,       \* table artifacts, per job_id in rowid order
    clock,           \* per job: repository statements executed so far
    finishedWrites,  \* per job: number of writes of finished_at
    pc,              \* per job: position of its worker in _analyze_job
    req,             \* per job: the arguments of start_analysis
    article,         \* per job: local article_text
    exc,             \* per job: text of the exception being handled
    tasks,           \* per job: local pipeline_tasks, in order of creation
    nextCall,        \* per job: index in LaunchOrder of the next call site
    down,            \* per job: pipelines whose collaborators are down
    calcEnabled,     \* enabled_pipelines of _calculate_progress called by itself
    calcReturned,    \* its last call: the rows it fetched, the value returned
    retry,           \* one call of an async_retry wrapper: arguments, locals, trace
    ollama,          \* services.ollama on one event loop: environment,
                     \* semaphores, chat calls
    validation,      \* one call of validate_article: its text, its outcome
    talk,            \* one call of services.did._wait_for_talk: its polls
    update           \* update_job called by itself: its last arguments

\* State of the library functions exercised by themselves, which no step of
\* a job's worker changes.
libVars == <<calcEnabled, calcReturned, retry, ollama, validation, talk,
            update>>

vars == <<jobs, artifacts, clock, finishedWrites, pc, req, article, exc,
          tasks, nextCall, down, libVars>>

\* No call of _calculate_progress made yet.
NoCall == [rows |-> <<>>, value |-> NoProgress]

\* No wrapper called.
NoRetry ==
    [attempts |-> 0, base_delay |-> 0, exceptions |-> {}, attempt |-> 0,
     last_error |-> None, pc |-> "idle", calls |-> <<>>, sleeps |-> <<>>,
     outcome |-> None]

\* validate_article not called.
NoValidation == [text |-> <<>>, pc |-> "idle", outcome |-> None]

\* _wait_for_talk not called.
NoTalk ==
    [polls |-> 0, attempt |-> 1, pc |-> "idle",
     data |-> [status |-> None, result_url |-> None], outcome |-> None]

\* update_job not called by itself.
NoUpdate ==
    [job_id |-> 0, status |-> None, progress |-> NoProgress, error |-> None,
     finished |-> FALSE, before |-> <<>>, now |-> NoTime]

\* services.ollama imported, chat not called.
NoOllama == [limit |-> 1, sems |-> <<>>, callers |-> <<>>, attempt |-> <<>>]

NoRequest ==
    [source_type |-> None, source_payload |-> UrlPayload, use_style |-> FALSE,
     audience |-> None, fast_mode |-> FALSE]

\* A _run_pipeline coroutine: its pipeline, where it stands, the artifacts
\* it has still to persist, the value it returned, and the local artifact
\* list of run_<name>_pipeline at the moment that pipeline raised.
NewTask(name) ==
    [name |-> name, state |-> "created", todo |-> <<>>, result |-> None,
     produced |-> <<>>]

\* ------------------------------------------------------------- repository
\* db.insert_job
InsertJob(J, id, status, progress, now) ==
    (id :> [status |-> status, progress |-> progress, started_at |-> now,
            finished_at |-> NoTime, error |-> None]) @@ J

\* update_job that stamps finished_at on every statement.
UpdateJob_AlwaysStamps(J, id, status, progress, error, finished, now) ==
    IF id \notin DOMAIN J THEN J
    ELSE [J EXCEPT ![id] =
            [status      |-> IF status # None THEN status ELSE @.status,
             progress    |-> IF progress # NoProgress THEN progress ELSE @.progress,
             started_at  |-> @.started_at,
             finished_at |-> now,
             error       |-> IF error # None THEN error ELSE @.error]]

\* An UPDATE without its WHERE clause: the columns of every row are set.
UpdateJob_EveryRow(J, id, status, progress, error, finished, now) ==
    IF id \notin DOMAIN J THEN J
    ELSE [k \in DOMAIN J |->
            [status      |-> IF status # None THEN status ELSE J[k].status,
             progress    |-> IF progress # NoProgress THEN progress ELSE J[k].progress,
             started_at  |-> J[k].started_at,
             finished_at |-> IF finished THEN now ELSE J[k].finished_at,
             error       |-> IF error # None THEN error ELSE J[k].error]]

\* update_job that writes NULL for an error it is not given.
UpdateJob_ClearsError(J, id, status, progress, error, finished, now) ==
    IF id \notin DOMAIN J THEN J
    ELSE [J EXCEPT ![id] =
            [status      |-> IF status # None THEN status ELSE @.status,
             progress    |-> IF progress # NoProgress THEN progress ELSE @.progress,
             started_at  |-> @.started_at,
             finished_at |-> IF finished THEN now ELSE @.finished_at,
             error       |-> error]]

\* db.update_job: only the given columns are in the SET list; no column,
\* no statement; an UPDATE whose WHERE matches no row changes nothing.
UpdateJob(J, id, status, progress, error, finished, now) ==
    IF id \notin DOMAIN J THEN J
    ELSE [J EXCEPT ![id] =
            [status      |-> IF status # None THEN status ELSE @.status,
             progress    |-> IF progress # NoProgress THEN progress ELSE @.progress,
             started_at  |-> @.started_at,
             finished_at |-> IF finished THEN now ELSE @.finished_at,
             error       |-> IF error # None THEN error ELSE @.error]]

\* An insert that keeps one row per job: INSERT OR REPLACE on job_id.
InsertArtifact_Replaces(A, id, type, path, metadata) ==
    [A EXCEPT ![id] = <<[type |-> type, path |-> path, metadata |-> metadata]>>]

\* db.insert_artifact
InsertArtifact(A, id, type, path, metadata) ==
    [A EXCEPT ![id] = Append(@, [type |-> type, path |-> path,
                                  metadata |-> metadata])]

\* db.fetch_artifacts
FetchArtifacts(id) == artifacts[id]

ArtifactTypes(id) == {FetchArtifacts(id)[i].type : i \in 1..Len(FetchArtifacts(id))}

\* One update_job statement of job j's worker.
DbUpdate(j, status, progress, error, finished) ==
    /\ jobs' = UpdateJob(jobs, j, status, progress, error, finished, clock[j] + 1)
    /\ clock' = [clock EXCEPT ![j] = @ + 1]
    /\ finishedWrites' =
         [finishedWrites EXCEPT ![j] =
            IF j \in DOMAIN jobs /\ jobs'[j].finished_at # jobs[j].finished_at
               THEN @ + 1 ELSE @]
    /\ UNCHANGED artifacts

\* One insert_artifact statement of job j's worker.
DbInsert(j, type, path, metadata) ==
    /\ artifacts' = InsertArtifact(artifacts, j, type, path, metadata)
    /\ clock' = [clock EXCEPT ![j] = @ + 1]
    /\ UNCHANGED <<jobs, finishedWrites>>

Goto(j, label) == pc' = [pc EXCEPT ![j] = label]

Raise(j, text) ==
    /\ exc' = [exc EXCEPT ![j] = text]
    /\ Goto(j, "L198")

\* ------------------------------------------------------------ job manager
\* JobManager.create_job
CreateJob(j) ==
    /\ j \notin DOMAIN jobs
    /\ pc[j] = "none"
    /\ jobs' = InsertJob(jobs, j, "queued", ProgressQueued, clock[j] + 1)
    /\ clock' = [clock EXCEPT ![j] = @ + 1]
    /\ Goto(j, "created")
    /\ UNCHANGED <<artifacts, finishedWrites, req, article, exc, tasks,
                   nextCall, down>>
    /\ UNCHANGED libVars

\* JobManager.start_analysis: the worker thread of the job is started with
\* the arguments; callers start one worker for each id create_job returned.
StartAnalysis(j, source_type, source_payload, use_style, audience, fast_mode) ==
    /\ pc[j] = "created"
    /\ req' = [req EXCEPT ![j] =
                 [source_type |-> source_type, source_payload |-> source_payload,
                  use_style |-> use_style, audience |-> audience,
                  fast_mode |-> fast_mode]]
    /\ Goto(j, "L96")
    /\ UNCHANGED <<jobs, artifacts, clock, finishedWrites, article, exc,
                   tasks, nextCall, down>>
    /\ UNCHANGED libVars

\* JobManager.start_analysis with an id create_job never returned: the
\* worker thread is started all the same. uuid4 does not return the id
\* later.
StartAnalysisUnknownId(j, source_type, source_payload, use_style, audience, fast_mode) ==
    /\ pc[j] = "none"
    /\ j \notin DOMAIN jobs
    /\ req' = [req EXCEPT ![j] =
                 [source_type |-> source_type, source_payload |-> source_payload,
                  use_style |-> use_style, audience |-> audience,
                  fast_mode |-> fast_mode]]
    /\ Goto(j, "L96")
    /\ UNCHANGED <<jobs, artifacts, clock, finishedWrites, article, exc,
                   tasks, nextCall, down>>
    /\ UNCHANGED libVars

\* JobManager.get_job: one SELECT, the Job is built from the row.
GetJob(id) ==
    /\ id \in DOMAIN pc
    /\ UNCHANGED <<jobs, artifacts, clock, finishedWrites, pc, req, article,
                   exc, tasks, nextCall, down>>
    /\ UNCHANGED libVars

\* JobManager.list_artifacts: one SELECT, the rows are copied into dicts.
ListArtifacts(id) ==
    /\ id \in DOMAIN pc
    /\ UNCHANGED <<jobs, artifacts, clock, finishedWrites, pc, req, article,
                   exc, tasks, nextCall, down>>
    /\ UNCHANGED libVars

\* The first update entering "generating" instead of "running".
MarkRunning_AsGenerating(j) ==
    /\ pc[j] = "L96"
    /\ DbUpdate(j, "generating", ProgressRunning, None, FALSE)
    /\ Goto(j, "L99")
    /\ UNCHANGED <<req, article, exc, tasks, nextCall, down>>
    /\ UNCHANGED libVars

\* db.update_job(job_id, status="running", progress=5)
MarkRunning(j) ==
    /\ pc[j] = "L96"
    /\ DbUpdate(j, "running", ProgressRunning, None, FALSE)
    /\ Goto(j, "L99")
    /\ UNCHANGED <<req, article, exc, tasks, nextCall, down>>
    /\ UNCHANGED libVars

\* db.update_job(job_id, progress=15)
MarkResolving(j) ==
    /\ pc[j] = "L99"
    /\ DbUpdate(j, None, ProgressResolving, None, FALSE)
    /\ Goto(j, "L100")
    /\ UNCHANGED <<req, article, exc, tasks, nextCall, down>>
    /\ UNCHANGED libVars

\* _resolve_article_text for paste and upload: the payload itself.
ResolvePayload(j) ==
    /\ pc[j] = "L100"
    /\ req[j].source_type \in {"paste", "upload"}
    /\ article' = [article EXCEPT ![j] = req[j].source_payload]
    /\ Goto(j, "L101")
    /\ UNCHANGED <<jobs, artifacts, clock, finishedWrites, req, exc, tasks,
                   nextCall, down>>
    /\ UNCHANGED libVars

\* _resolve_article_text for url: extract_article_from_url returns the
\* non-empty extracted text of the page.
ResolveUrl(j, page) ==
    /\ pc[j] = "L100"
    /\ req[j].source_type = "url"
    /\ page.words > 0
    /\ article' = [article EXCEPT ![j] = page]
    /\ Goto(j, "L101")
    /\ UNCHANGED <<jobs, artifacts, clock, finishedWrites, req, exc, tasks,
                   nextCall, down>>
    /\ UNCHANGED libVars

\* extract_article_from_url raises: the fetch failed on its last attempt, or
\* nothing could be extracted.
ResolveUrlFails(j, text) ==
    /\ pc[j] = "L100"
    /\ req[j].source_type = "url"
    /\ Raise(j, text)
    /\ UNCHANGED <<jobs, artifacts, clock, finishedWrites, req, article,
                   tasks, nextCall, down>>
    /\ UNCHANGED libVars

UrlErrors == {"HTTPError", "Unable to extract article text from URL"}

\* A resolver that reads the payload of an unknown source kind as the text.
ResolveUnsupported_AsPaste(j) ==
    /\ pc[j] = "L100"
    /\ req[j].source_type \notin {"paste", "url", "upload"}
    /\ article' = [article EXCEPT ![j] = req[j].source_payload]
    /\ Goto(j, "L101")
    /\ UNCHANGED <<jobs, artifacts, clock, finishedWrites, req, exc, tasks,
                   nextCall, down>>
    /\ UNCHANGED libVars

\* _resolve_article_text: raise ValueError(f"Unsupported source type: ...")
ResolveUnsupported(j) ==
    /\ pc[j] = "L100"
    /\ req[j].source_type \notin {"paste", "url", "upload"}
    /\ Raise(j, "Unsupported source type: " \o req[j].source_type)
    /\ UNCHANGED <<jobs, artifacts, clock, finishedWrites, req, article,
                   tasks, nextCall, down>>
    /\ UNCHANGED libVars

\* validate_article(article_text)
Validate(j) ==
    /\ pc[j] = "L101"
    /\ IF ValidateArticle(article[j]) = None
          THEN Goto(j, "L102") /\ UNCHANGED exc
          ELSE Raise(j, ValidateArticle(article[j]))
    /\ UNCHANGED <<jobs, artifacts, clock, finishedWrites, req, article,
                   tasks, nextCall, down>>
    /\ UNCHANGED libVars

\* db.insert_artifact(job_id, "article", ...)
InsertArticle(j) ==
    /\ pc[j] = "L102"
    /\ DbInsert(j, "article", "article.txt", [source |-> req[j].source_type])
    /\ Goto(j, "L103")
    /\ UNCHANGED <<req, article, exc, tasks, nextCall, down>>
    /\ UNCHANGED libVars

\* The checkpoint before the analysis written with the value of line 96.
MarkAnalyzing_Regresses(j) ==
    /\ pc[j] = "L103"
    /\ DbUpdate(j, None, ProgressRunning, None, FALSE)
    /\ Goto(j, "L104")
    /\ UNCHANGED <<req, article, exc, tasks, nextCall, down>>
    /\ UNCHANGED libVars

\* db.update_job(job_id, progress=25)
MarkAnalyzing(j) ==
    /\ pc[j] = "L103"
    /\ DbUpdate(j, None, ProgressAnalyzing, None, FALSE)
    /\ Goto(j, "L104")
    /\ UNCHANGED <<req, article, exc, tasks, nextCall, down>>
    /\ UNCHANGED libVars

\* analysis, metadata = await analyze_content(article_text)
Analyze(j) ==
    /\ pc[j] = "L104"
    /\ Goto(j, "L105")
    /\ UNCHANGED <<jobs, artifacts, clock, finishedWrites, req, article, exc,
                   tasks, nextCall, down>>
    /\ UNCHANGED libVars

\* analyze_content raises.
AnalyzeFails(j) ==
    /\ pc[j] = "L104"
    /\ Raise(j, "analysis request failed")
    /\ UNCHANGED <<jobs, artifacts, clock, finishedWrites, req, article,
                   tasks, nextCall, down>>
    /\ UNCHANGED libVars

\* The analysis is not persisted before the job goes on.
InsertAnalysis_Skipped(j) ==
    /\ pc[j] = "L105"
    /\ Goto(j, "L106")
    /\ UNCHANGED <<jobs, artifacts, clock, finishedWrites, req, article, exc,
                   tasks, nextCall, down>>
    /\ UNCHANGED libVars

\* db.insert_artifact(job_id, "analysis", ...)
InsertAnalysis(j) ==
    /\ pc[j] = "L105"
    /\ DbInsert(j, "analysis", "analysis.json", [provider |-> "analyzer"])
    /\ Goto(j, "L106")
    /\ UNCHANGED <<req, article, exc, tasks, nextCall, down>>
    /\ UNCHANGED libVars

\* The status generating stored with the checkpoint of line 103.
MarkGenerating_At25(j) ==
    /\ pc[j] = "L106"
    /\ DbUpdate(j, "generating", ProgressAnalyzing, None, FALSE)
    /\ Goto(j, "L115")
    /\ UNCHANGED <<req, article, exc, tasks, nextCall, down>>
    /\ UNCHANGED libVars

\* db.update_job(job_id, status="generating", progress=30)
MarkGenerating(j) ==
    /\ pc[j] = "L106"
    /\ DbUpdate(j, "generating", ProgressGenerating, None, FALSE)
    /\ Goto(j, "L115")
    /\ UNCHANGED <<req, article, exc, tasks, nextCall, down>>
    /\ UNCHANGED libVars

\* db.insert_artifact(job_id, "options", "", {...}); the fan-out begins with
\* the collaborators of the pipelines in d down.
InsertOptions(j, d) ==
    /\ pc[j] = "L115"
    /\ DbInsert(j, "options", "",
                [audience |-> req[j].audience, fast_mode |-> req[j].fast_mode,
                 use_style |-> req[j].use_style])
    /\ down' = [down EXCEPT ![j] = d]
    /\ nextCall' = [nextCall EXCEPT ![j] = 1]
    /\ Goto(j, "L127")
    /\ UNCHANGED <<req, article, exc, tasks>>
    /\ UNCHANGED libVars

\* if "<name>" in enabled: false, the call site is skipped.
SkipPipeline(j) ==
    /\ pc[j] = "L127"
    /\ nextCall[j] <= Len(LaunchOrder)
    /\ LaunchOrder[nextCall[j]] \notin EnabledPipelines(req[j].fast_mode)
    /\ nextCall' = [nextCall EXCEPT ![j] = @ + 1]
    /\ UNCHANGED <<jobs, artifacts, clock, finishedWrites, pc, req, article,
                   exc, tasks, down>>
    /\ UNCHANGED libVars

\* pipeline_tasks.append(_run_pipeline(job_id, name, run_<name>_pipeline(...),
\* enabled)): two coroutine objects are created, neither runs yet.
AppendPipelineTask(j) ==
    /\ pc[j] = "L127"
    /\ nextCall[j] <= Len(LaunchOrder)
    /\ LaunchOrder[nextCall[j]] \in EnabledPipelines(req[j].fast_mode)
    /\ ~CallRaises(LaunchOrder[nextCall[j]])
    /\ tasks' = [tasks EXCEPT ![j] = Append(@, NewTask(LaunchOrder[nextCall[j]]))]
    /\ nextCall' = [nextCall EXCEPT ![j] = @ + 1]
    /\ UNCHANGED <<jobs, artifacts, clock, finishedWrites, pc, req, article,
                   exc, down>>
    /\ UNCHANGED libVars

\* The call run_<name>_pipeline(...) raises TypeError while the arguments of
\* _run_pipeline are evaluated, inside the try of _analyze_job and outside
\* the try of _run_pipeline.
PipelineCallRaises(j) ==
    /\ pc[j] = "L127"
    /\ nextCall[j] <= Len(LaunchOrder)
    /\ LaunchOrder[nextCall[j]] \in EnabledPipelines(req[j].fast_mode)
    /\ CallRaises(LaunchOrder[nextCall[j]])
    /\ Raise(j, TypeErrorText(LaunchOrder[nextCall[j]]))
    /\ UNCHANGED <<jobs, artifacts, clock, finishedWrites, req, article,
                   tasks, nextCall, down>>
    /\ UNCHANGED libVars

\* A handler that stores the terminal status and then records the failure
\* as one more artifact.
ExceptHandler_ThenArtifact(j) ==
    \/ /\ pc[j] = "L198"
       /\ DbUpdate(j, "failed", ProgressTerminal, exc[j], TRUE)
       /\ Goto(j, "L199")
       /\ UNCHANGED <<req, article, exc, tasks, nextCall, down, libVars>>
    \/ /\ pc[j] = "L199"
       /\ DbInsert(j, "error_job", "", [error |-> exc[j]])
       /\ Goto(j, "done")
       /\ UNCHANGED <<req, article, exc, tasks, nextCall, down, libVars>>

\* A handler that logs the failure and stores nothing.
ExceptHandler_LogsOnly(j) ==
    /\ pc[j] = "L198"
    /\ Goto(j, "done")
    /\ UNCHANGED <<jobs, artifacts, clock, finishedWrites, req, article, exc,
                   tasks, nextCall, down>>
    /\ UNCHANGED libVars

\* except Exception as exc: db.update_job(job_id, status="failed",
\* progress=100, error=str(exc), finished=True)
ExceptHandler(j) ==
    /\ pc[j] = "L198"
    /\ DbUpdate(j, "failed", ProgressTerminal, exc[j], TRUE)
    /\ Goto(j, "done")
    /\ UNCHANGED <<req, article, exc, tasks, nextCall, down>>
    /\ UNCHANGED libVars

\* ---------------------------------------------------------------- fan-out
\* Markers that count the script of a video as its completion.
CompletionMarkers_WithScript(name) ==
    CASE name = "video"       -> {"video_branded", "video_raw", "video_script"}
      [] name = "audio"       -> {"audiogram", "audio"}
      [] name = "social"      -> {"social"}
      [] name = "translation" -> {"translation"}
      [] name = "seo"         -> {"seo"}
      [] name = "qa"          -> {"qa"}

\* Completion markers of _calculate_progress.
CompletionMarkers(name) ==
    CASE name = "video"       -> {"video_branded", "video_raw"}
      [] name = "audio"       -> {"audiogram", "audio"}
      [] name = "social"      -> {"social"}
      [] name = "translation" -> {"translation"}
      [] name = "seo"         -> {"seo"}
      [] name = "qa"          -> {"qa"}

Max(a, b) == IF a >= b THEN a ELSE b

\* A progress model that divides by the number of all six pipelines.
CalculateProgress_OverAllSix(types, enabled_pipelines) ==
    LET completed ==
            Cardinality({n \in enabled_pipelines \cap Pipelines :
                            CompletionMarkers(n) \cap types # {}})
    IN  ProgressBase + ((completed * ProgressSpan) \div Cardinality(Pipelines))

\* _calculate_progress over the types of the fetched rows. On these
\* operands int((completed / total) * 60) is the integer quotient.
CalculateProgress(types, enabled_pipelines) ==
    LET completed ==
            Cardinality({n \in enabled_pipelines \cap Pipelines :
                            CompletionMarkers(n) \cap types # {}})
        total == Max(1, Cardinality(enabled_pipelines))
    IN  ProgressBase + ((completed * ProgressSpan) \div total)

\* Artifact types each pipeline returns (its result list, in order).
PipelineArtifacts(name) ==
    CASE name = "video"       -> <<"video_script", "video_raw", "video_branded">>
      [] name = "audio"       -> <<"audio_script", "audio", "audiogram">>
      [] name = "social"      -> <<"social">>
      [] name = "translation" -> <<"translation", "translation_audio",
                                   "translation_notes">>
      [] name = "seo"         -> <<"seo">>
      [] name = "qa"          -> <<"qa">>

\* f"error_{name}"
ErrorType(name) == "error_" \o name

\* f"{name} pipeline failed: {exc}"
ErrorMessage(name, text) == name \o " pipeline failed: " \o text

\* What a pipeline raises when its collaborator is down.
ProviderErrorText(name) == name \o " provider unavailable"

Enabled(j) == EnabledPipelines(req[j].fast_mode)

\* A loop that may switch tasks at every statement, as if every
\* insert_artifact were awaited.
LoopIdle_Always(j) == TRUE

\* The event loop of a job runs one task at a time between two awaits: a
\* task that has resumed after "await coroutine" runs to its return before
\* any other task of the job takes a step.
LoopIdle(j) ==
    \A i \in 1..Len(tasks[j]) : tasks[j][i].state \in {"created", "awaiting", "done"}

SetTask(j, i, state, todo, result) ==
    tasks' = [tasks EXCEPT ![j][i] =
                [name |-> @.name, state |-> state, todo |-> todo,
                 result |-> result, produced |-> @.produced]]

\* asyncio.gather schedules the task: _run_pipeline runs up to
\* "artifacts = await coroutine" and the pipeline starts.
StartPipeline(j, i) ==
    /\ pc[j] = "L182"
    /\ LoopIdle(j)
    /\ tasks[j][i].state = "created"
    /\ SetTask(j, i, "awaiting", <<>>, None)
    /\ UNCHANGED <<jobs, artifacts, clock, finishedWrites, pc, req, article,
                   exc, nextCall, down>>
    /\ UNCHANGED libVars

\* The pipeline returns its artifact list.
PipelineReturns(j, i) ==
    /\ pc[j] = "L182"
    /\ LoopIdle(j)
    /\ tasks[j][i].state = "awaiting"
    /\ tasks[j][i].name \notin down[j]
    /\ SetTask(j, i, "persisting", PipelineArtifacts(tasks[j][i].name), None)
    /\ UNCHANGED <<jobs, artifacts, clock, finishedWrites, pc, req, article,
                   exc, nextCall, down>>
    /\ UNCHANGED libVars

\* for artifact in artifacts: db.insert_artifact(...)
PersistArtifact(j, i) ==
    /\ pc[j] = "L182"
    /\ tasks[j][i].state = "persisting"
    /\ tasks[j][i].todo # <<>>
    /\ DbInsert(j, Head(tasks[j][i].todo), Head(tasks[j][i].todo) \o ".out",
                [pipeline |-> tasks[j][i].name])
    /\ SetTask(j, i, "persisting", Tail(tasks[j][i].todo), None)
    /\ UNCHANGED <<pc, req, article, exc, nextCall, down>>
    /\ UNCHANGED libVars

\* A task that computes the progress from the artifacts it persisted itself
\* instead of a fresh read of the job's artifacts.
PipelineDone_OwnArtifacts(j, i) ==
    /\ pc[j] = "L182"
    /\ tasks[j][i].state = "persisting"
    /\ tasks[j][i].todo = <<>>
    /\ DbUpdate(j, None,
                CalculateProgress(
                    {PipelineArtifacts(tasks[j][i].name)[k] :
                        k \in 1..Len(PipelineArtifacts(tasks[j][i].name))},
                    Enabled(j)),
                None, FALSE)
    /\ SetTask(j, i, "done", <<>>, None)
    /\ UNCHANGED <<pc, req, article, exc, nextCall, down>>
    /\ UNCHANGED libVars

\* db.update_job(job_id, progress=_calculate_progress(...)); return None
PipelineDone(j, i) ==
    /\ pc[j] = "L182"
    /\ tasks[j][i].state = "persisting"
    /\ tasks[j][i].todo = <<>>
    /\ DbUpdate(j, None, CalculateProgress(ArtifactTypes(j), Enabled(j)), None,
                FALSE)
    /\ SetTask(j, i, "done", <<>>, None)
    /\ UNCHANGED <<pc, req, article, exc, nextCall, down>>
    /\ UNCHANGED libVars

\* Sub-steps of run_<name>_pipeline whose exception leaves the pipeline, by
\* the position of the artifact the sub-step would have appended: the
\* script and the render of video and of audio, and the one generation
\* call of the others. Branding, the audiogram and the Hindi voice-over
\* fail inside a try of the pipeline, which then returns its whole list.
RaisingSteps(name) ==
    IF name \in {"video", "audio"} THEN {1, 2} ELSE {1}

\* The pipeline raises in one of its sub-steps, its local list is lost with
\* its frame: except Exception as exc, error_message is built.
PipelineRaises(j, i) ==
    /\ pc[j] = "L182"
    /\ LoopIdle(j)
    /\ tasks[j][i].state = "awaiting"
    /\ tasks[j][i].name \in down[j]
    /\ \E k \in RaisingSteps(tasks[j][i].name) :
         tasks' = [tasks EXCEPT ![j][i] =
                     [name |-> @.name, state |-> "failing", todo |-> <<>>,
                      result |-> ErrorMessage(@.name, ProviderErrorText(@.name)),
                      produced |-> SubSeq(PipelineArtifacts(@.name), 1, k - 1)]]
    /\ UNCHANGED <<jobs, artifacts, clock, finishedWrites, pc, req, article,
                   exc, nextCall, down>>
    /\ UNCHANGED libVars

\* db.insert_artifact(job_id, f"error_{name}", "", {"error": str(exc)})
PersistError(j, i) ==
    /\ pc[j] = "L182"
    /\ tasks[j][i].state = "failing"
    /\ DbInsert(j, ErrorType(tasks[j][i].name), "",
                [error |-> ProviderErrorText(tasks[j][i].name)])
    /\ SetTask(j, i, "reporting", <<>>, tasks[j][i].result)
    /\ UNCHANGED <<pc, req, article, exc, nextCall, down>>
    /\ UNCHANGED libVars

\* db.update_job(job_id, progress=_calculate_progress(...)); return
\* error_message
PipelineFailed(j, i) ==
    /\ pc[j] = "L182"
    /\ tasks[j][i].state = "reporting"
    /\ DbUpdate(j, None, CalculateProgress(ArtifactTypes(j), Enabled(j)), None,
                FALSE)
    /\ SetTask(j, i, "done", <<>>, tasks[j][i].result)
    /\ UNCHANGED <<pc, req, article, exc, nextCall, down>>
    /\ UNCHANGED libVars

RECURSIVE Join(_)
\* "; ".join(errors)
Join(errors) ==
    IF errors = <<>> THEN ""
    ELSE IF Len(errors) = 1 THEN Head(errors)
    ELSE Head(errors) \o "; " \o Join(Tail(errors))

\* results = await asyncio.gather(*pipeline_tasks), in the order of the
\* tasks; errors = [item for item in results if item]
GatherErrors(j) ==
    LET results == [i \in 1..Len(tasks[j]) |-> tasks[j][i].result]
    IN  SelectSeq(results, LAMBDA r : r # None)

\* All tasks returned; the terminal update of lines 183-196.
Aggregate(j) ==
    /\ pc[j] = "L182"
    /\ \A i \in 1..Len(tasks[j]) : tasks[j][i].state = "done"
    /\ IF GatherErrors(j) # <<>>
          THEN DbUpdate(j, "completed_with_errors", ProgressTerminal,
                        Join(GatherErrors(j)), TRUE)
          ELSE DbUpdate(j, "completed", ProgressTerminal, None, TRUE)
    /\ Goto(j, "done")
    /\ UNCHANGED <<req, article, exc, tasks, nextCall, down>>
    /\ UNCHANGED libVars


\* ------------------------------------------------------------------- spec
Init ==
    /\ jobs = <<>>
    /\ artifacts = [j \in JobIds |-> <<>>]
    /\ clock = [j \in JobIds |-> 0]
    /\ finishedWrites = [j \in JobIds |-> 0]
    /\ pc = [j \in JobIds |-> "none"]
    /\ req = [j \in JobIds |-> NoRequest]
    /\ article = [j \in JobIds |-> UrlPayload]
    /\ exc = [j \in JobIds |-> None]
    /\ tasks = [j \in JobIds |-> <<>>]
    /\ nextCall = [j \in JobIds |-> 0]
    /\ down = [j \in JobIds |-> {}]
    /\ calcEnabled = {}
    /\ calcReturned = NoCall
    /\ validation = NoValidation
    /\ talk = NoTalk
    /\ update = NoUpdate
    /\ retry = NoRetry
    /\ ollama = NoOllama

\* The steps of _analyze_job up to the construction of pipeline_tasks, and
\* its except clause.
Next ==
    \E j \in JobIds :
        \/ CreateJob(j)
        \/ \E st \in SourceTypes, p \in Texts \cup {UrlPayload},
              us \in UseStyleFlags, au \in Audiences, fm \in BOOLEAN :
                /\ (st = "url") = (p = UrlPayload)
                /\ StartAnalysis(j, st, p, us, au, fm)
        \/ MarkRunning(j)
        \/ MarkResolving(j)
        \/ ResolvePayload(j)
        \/ \E page \in Texts : ResolveUrl(j, page)
        \/ \E text \in UrlErrors : ResolveUrlFails(j, text)
        \/ ResolveUnsupported(j)
        \/ Validate(j)
        \/ InsertArticle(j)
        \/ MarkAnalyzing(j)
        \/ Analyze(j)
        \/ AnalyzeFails(j)
        \/ InsertAnalysis(j)
        \/ MarkGenerating(j)
        \/ \E d \in DownSets : InsertOptions(j, d)
        \/ SkipPipeline(j)
        \/ AppendPipelineTask(j)
        \/ PipelineCallRaises(j)
        \/ ExceptHandler(j)

Spec == Init /\ [][Next]_vars

\* The steps of the worker thread of job j: the thread runs
\* asyncio.run(_analyze_job(...)) to its end.
WorkerNext(j) ==
    \/ MarkRunning(j)
    \/ MarkResolving(j)
    \/ ResolvePayload(j)
    \/ \E page \in Texts : ResolveUrl(j, page)
    \/ \E text \in UrlErrors : ResolveUrlFails(j, text)
    \/ ResolveUnsupported(j)
    \/ Validate(j)
    \/ InsertArticle(j)
    \/ MarkAnalyzing(j)
    \/ Analyze(j)
    \/ AnalyzeFails(j)
    \/ InsertAnalysis(j)
    \/ MarkGenerating(j)
    \/ \E d \in DownSets : InsertOptions(j, d)
    \/ SkipPipeline(j)
    \/ AppendPipelineTask(j)
    \/ PipelineCallRaises(j)
    \/ ExceptHandler(j)

\* The worker threads keep being scheduled, and every awaited call returns
\* or raises: while some worker can take a step, a worker takes one.
LiveSpec == Init /\ [][Next]_vars /\ WF_vars(\E j \in JobIds : WorkerNext(j))

\* Line 182 is entered once the last call site is passed. In Spec it never
\* is: "seo" is in both enabled sets and its call raises, so the worker
\* leaves the try block at line 168 and no step from line 182 on is a step
\* of Spec.
GatherEntered(j) == pc[j] = "L127" /\ nextCall[j] > Len(LaunchOrder)

NoGatherEntered == \A j \in JobIds : ~GatherEntered(j)

\* The fan-out taken by itself: gather, the _run_pipeline tasks and the
\* terminal update, from the state in which line 182 would be entered with
\* one task per enabled pipeline.
TasksFor(fast_mode) ==
    LET names == SelectSeq(LaunchOrder,
                           LAMBDA n : n \in EnabledPipelines(fast_mode))
    IN  [i \in 1..Len(names) |-> NewTask(names[i])]

FanOutJob == CHOOSE j \in JobIds : \A k \in JobIds : j <= k

FanOutInit ==
    \E fm \in BOOLEAN, d \in DownSets :
        /\ req = [j \in JobIds |->
                    IF j # FanOutJob THEN NoRequest
                    ELSE [source_type |-> "paste",
                          source_payload |-> Text(MinWords, 2, 190),
                          use_style |-> TRUE, audience |-> "General",
                          fast_mode |-> fm]]
        /\ down = [j \in JobIds |-> IF j = FanOutJob THEN d ELSE {}]
        /\ jobs = FanOutJob :>
                     [status |-> "generating", progress |-> ProgressGenerating,
                      started_at |-> 1, finished_at |-> NoTime, error |-> None]
        /\ artifacts = [j \in JobIds |->
                          IF j # FanOutJob THEN <<>>
                          ELSE << [type |-> "article", path |-> "article.txt",
                                   metadata |-> [source |-> "paste"]],
                                  [type |-> "analysis", path |-> "analysis.json",
                                   metadata |-> [provider |-> "analyzer"]],
                                  [type |-> "options", path |-> "",
                                   metadata |-> [audience |-> "General",
                                                 fast_mode |-> fm,
                                                 use_style |-> TRUE]] >>]
        /\ clock = [j \in JobIds |-> IF j = FanOutJob THEN 8 ELSE 0]
        /\ finishedWrites = [j \in JobIds |-> 0]
        /\ pc = [j \in JobIds |-> IF j = FanOutJob THEN "L182" ELSE "none"]
        /\ article = [j \in JobIds |->
                        IF j = FanOutJob THEN Text(MinWords, 2, 190) ELSE UrlPayload]
        /\ exc = [j \in JobIds |-> None]
        /\ tasks = [j \in JobIds |-> IF j = FanOutJob THEN TasksFor(fm) ELSE <<>>]
        /\ nextCall = [j \in JobIds |->
                         IF j = FanOutJob THEN Len(LaunchOrder) + 1 ELSE 0]
        /\ calcEnabled = {}
        /\ calcReturned = NoCall
        /\ validation = NoValidation
        /\ talk = NoTalk
        /\ update = NoUpdate
        /\ retry = NoRetry
        /\ ollama = NoOllama

FanOutNext ==
    \E j \in {FanOutJob} :
        \/ \E i \in 1..Len(tasks[j]) : StartPipeline(j, i)
        \/ \E i \in 1..Len(tasks[j]) : PipelineReturns(j, i)
        \/ \E i \in 1..Len(tasks[j]) : PersistArtifact(j, i)
        \/ \E i \in 1..Len(tasks[j]) : PipelineDone(j, i)
        \/ \E i \in 1..Len(tasks[j]) : PipelineRaises(j, i)
        \/ \E i \in 1..Len(tasks[j]) : PersistError(j, i)
        \/ \E i \in 1..Len(tasks[j]) : PipelineFailed(j, i)
        \/ Aggregate(j)

FanOutSpec == FanOutInit /\ [][FanOutNext]_vars

\* _run_pipeline under the pipeline contract: the awaited coroutine may
\* return an empty list. The pipelines of SilentPipelines may do so here,
\* next to returning their list or raising.
SilentPipelines == {"video", "qa"}

ContractDownSets == {{}, {"social"}}

ContractInit == FanOutInit /\ down[FanOutJob] \in ContractDownSets

\* An empty list recorded as a failure of the pipeline.
PipelineReturnsEmpty_AsFailure(j, i) ==
    /\ pc[j] = "L182"
    /\ LoopIdle(j)
    /\ tasks[j][i].state = "awaiting"
    /\ tasks[j][i].name \in SilentPipelines \ down[j]
    /\ SetTask(j, i, "failing", <<>>,
               ErrorMessage(tasks[j][i].name, "no artifacts"))
    /\ UNCHANGED <<jobs, artifacts, clock, finishedWrites, pc, req, article,
                   exc, nextCall, down>>
    /\ UNCHANGED libVars

\* artifacts = await coroutine, with artifacts == []: the for loop has no
\* turn.
PipelineReturnsEmpty(j, i) ==
    /\ pc[j] = "L182"
    /\ LoopIdle(j)
    /\ tasks[j][i].state = "awaiting"
    /\ tasks[j][i].name \in SilentPipelines \ down[j]
    /\ SetTask(j, i, "persisting", <<>>, None)
    /\ UNCHANGED <<jobs, artifacts, clock, finishedWrites, pc, req, article,
                   exc, nextCall, down>>
    /\ UNCHANGED libVars

ContractNext ==
    \E j \in {FanOutJob} :
        \/ \E i \in 1..Len(tasks[j]) : StartPipeline(j, i)
        \/ \E i \in 1..Len(tasks[j]) : PipelineReturns(j, i)
        \/ \E i \in 1..Len(tasks[j]) : PipelineReturnsEmpty(j, i)
        \/ \E i \in 1..Len(tasks[j]) : PersistArtifact(j, i)
        \/ \E i \in 1..Len(tasks[j]) : PipelineDone(j, i)
        \/ \E i \in 1..Len(tasks[j]) : PipelineRaises(j, i)
        \/ \E i \in 1..Len(tasks[j]) : PersistError(j, i)
        \/ \E i \in 1..Len(tasks[j]) : PipelineFailed(j, i)
        \/ Aggregate(j)

ContractSpec == ContractInit /\ [][ContractNext]_vars

\* _calculate_progress taken by itself: called for one job over any enabled
\* set and any artifact list, between inserts of further rows.
MarkerOrder ==
    <<"video_branded", "audiogram", "social", "translation", "seo", "qa">>

\* Types of the rows inserted between two calls: the second marker of video
\* and of audio, a marker that may be present already, a pipeline artifact
\* that is no marker, and an error artifact.
InsertedTypes == {"video_raw", "audio", "seo", "video_script", "error_qa"}

RowOf(type) == [type |-> type, path |-> type \o ".out", metadata |-> <<>>]

RowsOf(types) ==
    LET present == SelectSeq(MarkerOrder, LAMBDA t : t \in types)
    IN  [i \in 1..Len(present) |-> RowOf(present[i])]

ProgressInit ==
    \E E \in SUBSET Pipelines, S \in SUBSET {MarkerOrder[i] : i \in 1..Len(MarkerOrder)} :
        /\ calcEnabled = E
        /\ calcReturned = NoCall
        /\ validation = NoValidation
        /\ talk = NoTalk
        /\ update = NoUpdate
        /\ retry = NoRetry
        /\ ollama = NoOllama
        /\ jobs = FanOutJob :>
                     [status |-> "generating", progress |-> ProgressGenerating,
                      started_at |-> 1, finished_at |-> NoTime, error |-> None]
        /\ artifacts = [j \in JobIds |-> IF j = FanOutJob THEN RowsOf(S) ELSE <<>>]
        /\ clock = [j \in JobIds |-> 0]
        /\ finishedWrites = [j \in JobIds |-> 0]
        /\ pc = [j \in JobIds |-> IF j = FanOutJob THEN "L182" ELSE "none"]
        /\ req = [j \in JobIds |-> NoRequest]
        /\ article = [j \in JobIds |-> UrlPayload]
        /\ exc = [j \in JobIds |-> None]
        /\ tasks = [j \in JobIds |-> <<>>]
        /\ nextCall = [j \in JobIds |-> 0]
        /\ down = [j \in JobIds |-> {}]

\* db.insert_artifact of one more row of the job.
InsertRow(j, type) ==
    /\ clock[j] < MaxInserts
    /\ DbInsert(j, type, type \o ".out", <<>>)
    /\ UNCHANGED <<pc, req, article, exc, tasks, nextCall, down, libVars>>

\* _calculate_progress(job_id, enabled_pipelines)
CalculateProgressCall(j) ==
    /\ calcReturned' =
          [rows |-> FetchArtifacts(j),
           value |-> CalculateProgress(ArtifactTypes(j), calcEnabled)]
    /\ UNCHANGED <<jobs, artifacts, clock, finishedWrites, pc, req, article,
                   exc, tasks, nextCall, down, calcEnabled, retry, ollama,
                   validation, talk, update>>

ProgressNext ==
    \E j \in {FanOutJob} :
        \/ \E t \in InsertedTypes : InsertRow(j, t)
        \/ CalculateProgressCall(j)

ProgressSpec == ProgressInit /\ [][ProgressNext]_vars

\* ------------------------------------------------------------ async_retry
\* Exception classes the wrapped operations raise, with their base classes.
ExceptionKinds == {"HTTPError", "OllamaError", "DIDError", "CancelledError"}

BaseClasses(kind) ==
    IF kind = "CancelledError" THEN {"CancelledError", "BaseException"}
    ELSE {kind, "Exception", "BaseException"}

\* The exceptions argument at the call sites, and its default.
ExceptionTuples == {{"HTTPError"}, {"HTTPError", "OllamaError"}, {"Exception"}}

\* base_delay in tenths of a second: 0.8 at the call sites.
BaseDelays == {8, 1}

\* An except clause that catches every exception.
Matches_Any(kind, classes) == TRUE

\* except exceptions as exc: isinstance(exc, exceptions)
Matches(kind, classes) == BaseClasses(kind) \cap classes # {}

RECURSIVE Pow2(_)
Pow2(n) == IF n <= 0 THEN 1 ELSE 2 * Pow2(n - 1)

\* A backoff that does not grow.
RetryDelay_Constant(base_delay, attempt) == base_delay

\* delay = base_delay * (2 ** (attempt - 1))
RetryDelay(base_delay, attempt) == base_delay * Pow2(attempt - 1)

\* The exception raised, or the value returned, by the n-th call of func.
Raised(kind, n) == [kind |-> kind, call |-> n]

Returned(n) == [kind |-> "value", call |-> n]

\* wrapper() is called: last_error = None and the loop starts at attempt 1.
RetryInit ==
    \E n \in 1..MaxAttempts, d \in BaseDelays, ex \in ExceptionTuples :
        /\ retry = [attempts |-> n, base_delay |-> d, exceptions |-> ex,
                    attempt |-> 1, last_error |-> None, pc |-> "L18",
                    calls |-> <<>>, sleeps |-> <<>>, outcome |-> None]
        /\ ollama = NoOllama
        /\ calcEnabled = {}
        /\ calcReturned = NoCall
        /\ validation = NoValidation
        /\ talk = NoTalk
        /\ update = NoUpdate
        /\ jobs = <<>>
        /\ artifacts = [j \in JobIds |-> <<>>]
        /\ clock = [j \in JobIds |-> 0]
        /\ finishedWrites = [j \in JobIds |-> 0]
        /\ pc = [j \in JobIds |-> "none"]
        /\ req = [j \in JobIds |-> NoRequest]
        /\ article = [j \in JobIds |-> UrlPayload]
        /\ exc = [j \in JobIds |-> None]
        /\ tasks = [j \in JobIds |-> <<>>]
        /\ nextCall = [j \in JobIds |-> 0]
        /\ down = [j \in JobIds |-> {}]

RetryIdle ==
    UNCHANGED <<jobs, artifacts, clock, finishedWrites, pc, req, article, exc,
                tasks, nextCall, down, calcEnabled, calcReturned, ollama,
                validation, talk, update>>

\* return await func(): the call returns.
WrapperReturns ==
    /\ retry.pc = "L18"
    /\ retry' = [retry EXCEPT !.calls = Append(@, "value"),
                               !.outcome = Returned(Len(retry.calls) + 1),
                               !.pc = "returned"]
    /\ RetryIdle

\* except exceptions as exc: last_error = exc, with attempts left.
WrapperCatches(kind) ==
    /\ retry.pc = "L18"
    /\ Matches(kind, retry.exceptions)
    /\ retry.attempt # retry.attempts
    /\ retry' = [retry EXCEPT !.calls = Append(@, kind),
                               !.last_error = Raised(kind, Len(retry.calls) + 1),
                               !.pc = "L24"]
    /\ RetryIdle

\* await asyncio.sleep(delay), and the next turn of the loop.
WrapperSleeps ==
    /\ retry.pc = "L24"
    /\ retry' = [retry EXCEPT !.sleeps =
                                   Append(@, RetryDelay(retry.base_delay, retry.attempt)),
                               !.attempt = @ + 1,
                               !.pc = "L18"]
    /\ RetryIdle

\* A wrapper that backs off once more before it gives up.
WrapperExhausted_SleepsFirst(kind) ==
    /\ retry.pc = "L18"
    /\ Matches(kind, retry.exceptions)
    /\ retry.attempt = retry.attempts
    /\ retry' = [retry EXCEPT !.calls = Append(@, kind),
                               !.sleeps =
                                   Append(@, RetryDelay(retry.base_delay, retry.attempt)),
                               !.last_error = Raised(kind, Len(retry.calls) + 1),
                               !.outcome = Raised(kind, Len(retry.calls) + 1),
                               !.pc = "raised"]
    /\ RetryIdle

\* except exceptions as exc on the last attempt: break; raise last_error.
WrapperExhausted(kind) ==
    /\ retry.pc = "L18"
    /\ Matches(kind, retry.exceptions)
    /\ retry.attempt = retry.attempts
    /\ retry' = [retry EXCEPT !.calls = Append(@, kind),
                               !.last_error = Raised(kind, Len(retry.calls) + 1),
                               !.outcome = Raised(kind, Len(retry.calls) + 1),
                               !.pc = "raised"]
    /\ RetryIdle

\* func raises an exception the except clause does not name: it leaves
\* wrapper() from line 18.
WrapperPropagates(kind) ==
    /\ retry.pc = "L18"
    /\ ~Matches(kind, retry.exceptions)
    /\ retry' = [retry EXCEPT !.calls = Append(@, kind),
                               !.outcome = Raised(kind, Len(retry.calls) + 1),
                               !.pc = "raised"]
    /\ RetryIdle

RetryNext ==
    \/ WrapperReturns
    \/ \E kind \in ExceptionKinds : WrapperCatches(kind)
    \/ WrapperSleeps
    \/ \E kind \in ExceptionKinds : WrapperExhausted(kind)
    \/ \E kind \in ExceptionKinds : WrapperPropagates(kind)

RetrySpec == RetryInit /\ [][RetryNext]_vars

\* --------------------------------------------------------- services.ollama
\* chat._request on the event loop of one worker: _get_semaphore, the
\* "async with" around the POST, and asyncio.Semaphore as the loop runs it.
Callers == 1..MaxCallers

\* int(os.getenv("OLLAMA_CONCURRENCY", "1"))
ConcurrencySettings == {-1, 0, 1, 2}

\* A semaphore of its own for every call of chat.
SemaphoreOf_PerCaller(c) == ToString(c)

\* _get_semaphore returns the module global _OLLAMA_SEMAPHORE to every
\* caller.
SemaphoreOf(c) == "_OLLAMA_SEMAPHORE"

\* The semaphores after _get_semaphore ran for caller c: the global is
\* created on the first call, asyncio.Semaphore(max(1, limit)).
GetSemaphore(c) ==
    IF SemaphoreOf(c) \in DOMAIN ollama.sems THEN ollama.sems
    ELSE (SemaphoreOf(c) :> [value |-> Max(1, ollama.limit), waiters |-> <<>>])
            @@ ollama.sems

\* Semaphore.locked()
Locked(sem) == sem.value = 0 \/ sem.waiters # <<>>

\* Semaphore._wake_up_next(): the first waiter whose future is not done
\* gets the permit; callers is the state of every caller.
WakeUpNext(sem, callers) ==
    LET pending == SelectSeq(sem.waiters, LAMBDA w : callers[w] = "waiting")
    IN  IF pending = <<>> THEN [sem |-> sem, callers |-> callers]
        ELSE [sem |-> [sem EXCEPT !.value = @ - 1],
              callers |-> [callers EXCEPT ![Head(pending)] = "woken"]]

\* Semaphore.release()
Release(sem, callers) == WakeUpNext([sem EXCEPT !.value = @ + 1], callers)

OllamaInit ==
    \E limit \in ConcurrencySettings :
        /\ ollama = [limit |-> limit, sems |-> <<>>,
                     callers |-> [c \in Callers |-> "idle"],
                     attempt |-> [c \in Callers |-> 1]]
        /\ retry = NoRetry
        /\ calcEnabled = {}
        /\ calcReturned = NoCall
        /\ validation = NoValidation
        /\ talk = NoTalk
        /\ update = NoUpdate
        /\ jobs = <<>>
        /\ artifacts = [j \in JobIds |-> <<>>]
        /\ clock = [j \in JobIds |-> 0]
        /\ finishedWrites = [j \in JobIds |-> 0]
        /\ pc = [j \in JobIds |-> "none"]
        /\ req = [j \in JobIds |-> NoRequest]
        /\ article = [j \in JobIds |-> UrlPayload]
        /\ exc = [j \in JobIds |-> None]
        /\ tasks = [j \in JobIds |-> <<>>]
        /\ nextCall = [j \in JobIds |-> 0]
        /\ down = [j \in JobIds |-> {}]

OllamaIdle ==
    UNCHANGED <<jobs, artifacts, clock, finishedWrites, pc, req, article, exc,
                tasks, nextCall, down, calcEnabled, calcReturned, retry,
                validation, talk, update>>

\* async with _get_semaphore(): acquire() finds the semaphore free, and the
\* POST is sent.
ChatAcquires(c) ==
    /\ ollama.callers[c] = "idle"
    /\ ~Locked(GetSemaphore(c)[SemaphoreOf(c)])
    /\ ollama' = [ollama EXCEPT
                     !.sems = [GetSemaphore(c) EXCEPT ![SemaphoreOf(c)].value = @ - 1],
                     !.callers[c] = "posting"]
    /\ OllamaIdle

\* acquire() finds the semaphore locked and awaits its future.
ChatWaits(c) ==
    /\ ollama.callers[c] = "idle"
    /\ Locked(GetSemaphore(c)[SemaphoreOf(c)])
    /\ ollama' = [ollama EXCEPT
                     !.sems = [GetSemaphore(c) EXCEPT
                                 ![SemaphoreOf(c)].waiters = Append(@, c)],
                     !.callers[c] = "waiting"]
    /\ OllamaIdle

\* The woken waiter resumes in acquire(): it leaves the queue, passes a
\* spare permit on, and its POST is sent.
ChatResumes(c) ==
    /\ ollama.callers[c] = "woken"
    /\ LET sem    == ollama.sems[SemaphoreOf(c)]
           left   == [sem EXCEPT !.waiters = SelectSeq(@, LAMBDA w : w # c)]
           posted == [ollama.callers EXCEPT ![c] = "posting"]
           next   == IF left.value > 0 THEN WakeUpNext(left, posted)
                     ELSE [sem |-> left, callers |-> posted]
       IN  ollama' = [ollama EXCEPT !.sems[SemaphoreOf(c)] = next.sem,
                                    !.callers = next.callers]
    /\ OllamaIdle

\* The response arrives and the "async with" block is left: release().
PostReturns(c) ==
    /\ ollama.callers[c] = "posting"
    /\ LET after == Release(ollama.sems[SemaphoreOf(c)],
                            [ollama.callers EXCEPT ![c] = "done"])
       IN  ollama' = [ollama EXCEPT !.sems[SemaphoreOf(c)] = after.sem,
                                    !.callers = after.callers]
    /\ OllamaIdle

\* A block that is left by an exception without release().
PostRaises_KeepsPermit(c) ==
    /\ ollama.callers[c] = "posting"
    /\ ollama' = [ollama EXCEPT !.callers[c] = "failed"]
    /\ OllamaIdle

\* client.post or raise_for_status raises: the block is left by the
\* exception, release() all the same.
PostRaises(c) ==
    /\ ollama.callers[c] = "posting"
    /\ LET after == Release(ollama.sems[SemaphoreOf(c)],
                            [ollama.callers EXCEPT ![c] = "failed"])
       IN  ollama' = [ollama EXCEPT !.sems[SemaphoreOf(c)] = after.sem,
                                    !.callers = after.callers]
    /\ OllamaIdle

OllamaNext ==
    \E c \in Callers :
        \/ ChatAcquires(c)
        \/ ChatWaits(c)
        \/ ChatResumes(c)
        \/ PostReturns(c)
        \/ PostRaises(c)

OllamaSpec == OllamaInit /\ [][OllamaNext]_vars

\* chat._request under its async_retry wrapper (attempts=3): the exception
\* of a failed attempt is caught outside the "async with" block, and the
\* wrapper awaits asyncio.sleep(delay).
RequestBacksOff(c) ==
    /\ ollama.callers[c] = "failed"
    /\ ollama.attempt[c] # OllamaAttempts
    /\ ollama' = [ollama EXCEPT !.callers[c] = "sleeping"]
    /\ OllamaIdle

\* The sleep ends and the loop calls _request again.
RequestRetries(c) ==
    /\ ollama.callers[c] = "sleeping"
    /\ ollama' = [ollama EXCEPT !.callers[c] = "idle", !.attempt[c] = @ + 1]
    /\ OllamaIdle

OllamaRetryNext ==
    \E c \in Callers :
        \/ ChatAcquires(c)
        \/ ChatWaits(c)
        \/ ChatResumes(c)
        \/ PostReturns(c)
        \/ PostRaises(c)
        \/ RequestBacksOff(c)
        \/ RequestRetries(c)

OllamaRetrySpec == OllamaInit /\ [][OllamaRetryNext]_vars

\* ------------------------------------------- services.ollama, job threads
\* chat._request called by the workers of several jobs. start_analysis gives
\* every job a thread, _run_async_job an event loop of its own (asyncio.run),
\* and all of them share the module global _OLLAMA_SEMAPHORE; a thread
\* switch can fall between any two steps below. Thread t of Callers is one
\* worker making one request. ollama.global is the object the global names,
\* ollama.sems the asyncio.Semaphore objects created so far, each named by
\* the thread that created it and bound to the event loop of its first
\* waiter (loop 0: not bound yet), ollama.local[t] the object
\* _get_semaphore returned to t.
ThreadsInit ==
    \E limit \in ConcurrencySettings :
        /\ ollama = [limit |-> limit, global |-> None, sems |-> <<>>,
                     callers |-> [t \in Callers |-> "idle"],
                     local |-> [t \in Callers |-> None],
                     attempt |-> [t \in Callers |-> 1]]
        /\ retry = NoRetry
        /\ calcEnabled = {}
        /\ calcReturned = NoCall
        /\ validation = NoValidation
        /\ talk = NoTalk
        /\ update = NoUpdate
        /\ jobs = <<>>
        /\ artifacts = [j \in JobIds |-> <<>>]
        /\ clock = [j \in JobIds |-> 0]
        /\ finishedWrites = [j \in JobIds |-> 0]
        /\ pc = [j \in JobIds |-> "none"]
        /\ req = [j \in JobIds |-> NoRequest]
        /\ article = [j \in JobIds |-> UrlPayload]
        /\ exc = [j \in JobIds |-> None]
        /\ tasks = [j \in JobIds |-> <<>>]
        /\ nextCall = [j \in JobIds |-> 0]
        /\ down = [j \in JobIds |-> {}]

\* if _OLLAMA_SEMAPHORE is None:
ThreadTestsGlobal(t) ==
    /\ ollama.callers[t] = "idle"
    /\ ollama' = [ollama EXCEPT
                     !.callers[t] = IF ollama.global = None THEN "creating"
                                    ELSE "returning"]
    /\ OllamaIdle

\* limit = int(os.getenv("OLLAMA_CONCURRENCY", "1"));
\* _OLLAMA_SEMAPHORE = asyncio.Semaphore(max(1, limit)): whatever the global
\* named before, it names the new object now.
ThreadCreatesSemaphore(t) ==
    /\ ollama.callers[t] = "creating"
    /\ ollama' = [ollama EXCEPT
                     !.sems = (ToString(t) :> [value |-> Max(1, ollama.limit),
                                               waiters |-> <<>>,
                                               loop |-> 0]) @@ @,
                     !.global = ToString(t),
                     !.callers[t] = "returning"]
    /\ OllamaIdle

\* return _OLLAMA_SEMAPHORE
ThreadReturnsGlobal(t) ==
    /\ ollama.callers[t] = "returning"
    /\ ollama' = [ollama EXCEPT !.local[t] = ollama.global,
                                !.callers[t] = "acquiring"]
    /\ OllamaIdle

\* async with: acquire() finds the semaphore it was given free, and the POST
\* is sent.
ThreadAcquires(t) ==
    /\ ollama.callers[t] = "acquiring"
    /\ ~Locked(ollama.sems[ollama.local[t]])
    /\ ollama' = [ollama EXCEPT !.sems[ollama.local[t]].value = @ - 1,
                                !.callers[t] = "posting"]
    /\ OllamaIdle

\* acquire() finds it locked: _get_loop() binds the semaphore to the running
\* loop of its first waiter and raises RuntimeError in a waiter of any other
\* loop; a waiter of the bound loop awaits its future.
ThreadWaits(t) ==
    /\ ollama.callers[t] = "acquiring"
    /\ Locked(ollama.sems[ollama.local[t]])
    /\ ollama' =
         IF ollama.sems[ollama.local[t]].loop \in {0, t}
         THEN [ollama EXCEPT !.sems[ollama.local[t]].loop = t,
                             !.sems[ollama.local[t]].waiters = Append(@, t),
                             !.callers[t] = "waiting"]
         ELSE [ollama EXCEPT !.callers[t] = "failed"]
    /\ OllamaIdle

\* The woken waiter resumes in acquire(): it leaves the queue, passes a
\* spare permit on, and its POST is sent.
ThreadResumes(t) ==
    /\ ollama.callers[t] = "woken"
    /\ LET sem    == ollama.sems[ollama.local[t]]
           left   == [sem EXCEPT !.waiters = SelectSeq(@, LAMBDA w : w # t)]
           posted == [ollama.callers EXCEPT ![t] = "posting"]
           next   == IF left.value > 0 THEN WakeUpNext(left, posted)
                     ELSE [sem |-> left, callers |-> posted]
       IN  ollama' = [ollama EXCEPT !.sems[ollama.local[t]] = next.sem,
                                    !.callers = next.callers]
    /\ OllamaIdle

\* The POST ends, by a response or by an exception, and the "async with"
\* block is left: release() on the semaphore this thread was given.
ThreadPostEnds(t) ==
    /\ ollama.callers[t] = "posting"
    /\ LET after == Release(ollama.sems[ollama.local[t]],
                            [ollama.callers EXCEPT ![t] = "done"])
       IN  ollama' = [ollama EXCEPT !.sems[ollama.local[t]] = after.sem,
                                    !.callers = after.callers]
    /\ OllamaIdle

ThreadsNext ==
    \E t \in Callers :
        \/ ThreadTestsGlobal(t)
        \/ ThreadCreatesSemaphore(t)
        \/ ThreadReturnsGlobal(t)
        \/ ThreadAcquires(t)
        \/ ThreadWaits(t)
        \/ ThreadResumes(t)
        \/ ThreadPostEnds(t)

ThreadsSpec == ThreadsInit /\ [][ThreadsNext]_vars

\* ------------------------------------------------------------ services.did
\* One call of _wait_for_talk: "for _ in range(40)" around the retried
\* _fetch. talk.polls counts the calls of _fetch that returned a status,
\* talk.attempt the GET requests of the call of _fetch under way, talk.data
\* is what the last poll returned.

\* for _ in range(40)
MaxPolls == 40

\* @async_retry(attempts=3, ...) on _fetch
DidAttempts == 3

\* response.json() as the loop reads it: data.get("status") and
\* data.get("result_url"), None for a missing key.
PollData ==
    [status : {"done", "error", "created", "started", None},
     result_url : {None, "", "https://d-id/result.mp4"}]

WaitInit ==
    /\ talk = [NoTalk EXCEPT !.pc = "polling"]
    /\ update = NoUpdate
    /\ validation = NoValidation
    /\ calcEnabled = {}
    /\ calcReturned = NoCall
    /\ retry = NoRetry
    /\ ollama = NoOllama
    /\ jobs = <<>>
    /\ artifacts = [j \in JobIds |-> <<>>]
    /\ clock = [j \in JobIds |-> 0]
    /\ finishedWrites = [j \in JobIds |-> 0]
    /\ pc = [j \in JobIds |-> "none"]
    /\ req = [j \in JobIds |-> NoRequest]
    /\ article = [j \in JobIds |-> UrlPayload]
    /\ exc = [j \in JobIds |-> None]
    /\ tasks = [j \in JobIds |-> <<>>]
    /\ nextCall = [j \in JobIds |-> 0]
    /\ down = [j \in JobIds |-> {}]

WaitIdle ==
    UNCHANGED <<jobs, artifacts, clock, finishedWrites, pc, req, article, exc,
                tasks, nextCall, down, calcEnabled, calcReturned, retry,
                ollama, validation, update>>

\* A loop that takes the status error for one more pending status.
Poll_PollsOnAfterError(data) ==
    /\ talk.pc = "polling"
    /\ talk.polls < MaxPolls
    /\ talk' = [talk EXCEPT
                   !.polls = @ + 1, !.attempt = 1, !.data = data,
                   !.pc = IF data.status = "done"
                          THEN IF data.result_url \in {None, ""}
                               THEN "raised" ELSE "returned"
                          ELSE "polling",
                   !.outcome = IF data.status = "done"
                               THEN IF data.result_url \in {None, ""}
                                    THEN "D-ID talk missing result_url"
                                    ELSE data.result_url
                               ELSE None]
    /\ WaitIdle

\* One pass of the loop whose _fetch returns data: done with a result_url
\* returns it, done without one and error raise DIDError, any other status
\* sleeps 3 s and goes round again.
Poll(data) ==
    /\ talk.pc = "polling"
    /\ talk.polls < MaxPolls
    /\ talk' = [talk EXCEPT
                   !.polls = @ + 1, !.attempt = 1, !.data = data,
                   !.pc = IF data.status = "done"
                          THEN IF data.result_url \in {None, ""}
                               THEN "raised" ELSE "returned"
                          ELSE IF data.status = "error" THEN "raised"
                          ELSE "polling",
                   !.outcome = IF data.status = "done"
                               THEN IF data.result_url \in {None, ""}
                                    THEN "D-ID talk missing result_url"
                                    ELSE data.result_url
                               ELSE IF data.status = "error"
                                    THEN "D-ID talk failed"
                               ELSE None]
    /\ WaitIdle

\* The GET of _fetch raises httpx.HTTPError: async_retry sleeps and tries
\* again, and lets the exception of the third attempt through, which ends
\* the wait.
FetchRaises ==
    /\ talk.pc = "polling"
    /\ talk.polls < MaxPolls
    /\ talk' = IF talk.attempt < DidAttempts
               THEN [talk EXCEPT !.attempt = @ + 1]
               ELSE [talk EXCEPT !.pc = "raised", !.outcome = "HTTPError"]
    /\ WaitIdle

\* The range is used up: raise DIDError("D-ID talk timed out")
TimesOut ==
    /\ talk.pc = "polling"
    /\ talk.polls = MaxPolls
    /\ talk' = [talk EXCEPT !.pc = "raised",
                            !.outcome = "D-ID talk timed out"]
    /\ WaitIdle

WaitNext ==
    \/ \E data \in PollData : Poll(data)
    \/ FetchRaises
    \/ TimesOut

\* Every request and every sleep of the wait ends (the GET has a 20 s
\* timeout), so the coroutine goes on as long as it has a step to take.
WaitSpec == WaitInit /\ [][WaitNext]_vars /\ WF_vars(WaitNext)

\* ---------------------------------------------------------- db.update_job
\* One call of update_job, with any arguments, on any table of jobs: rows
\* for any of the ids, a row's columns as insert_job and earlier updates
\* may have left them. update holds the arguments of the call, the table
\* before it, and the time datetime.utcnow() returned.
StoredRows ==
    [status : {"queued", "failed"}, progress : {ProgressRunning},
     started_at : {1}, finished_at : {NoTime, 1}, error : {None, "boom"}]

UpdateInit ==
    /\ \E present \in SUBSET Ids : jobs \in [present -> StoredRows]
    /\ update = NoUpdate
    /\ clock = [j \in Ids |-> 1]
    /\ finishedWrites = [j \in Ids |-> 0]
    /\ artifacts = [j \in Ids |-> <<>>]
    /\ pc = [j \in Ids |-> "none"]
    /\ req = [j \in Ids |-> NoRequest]
    /\ article = [j \in Ids |-> UrlPayload]
    /\ exc = [j \in Ids |-> None]
    /\ tasks = [j \in Ids |-> <<>>]
    /\ nextCall = [j \in Ids |-> 0]
    /\ down = [j \in Ids |-> {}]
    /\ calcEnabled = {}
    /\ calcReturned = NoCall
    /\ validation = NoValidation
    /\ talk = NoTalk
    /\ retry = NoRetry
    /\ ollama = NoOllama

\* update_job(job_id, status, progress, error, finished): the statement it
\* builds is executed, or none is.
UpdateJobCall(id, status, progress, error, finished) ==
    /\ update = NoUpdate
    /\ DbUpdate(id, status, progress, error, finished)
    /\ update' = [job_id |-> id, status |-> status, progress |-> progress,
                  error |-> error, finished |-> finished, before |-> jobs,
                  now |-> clock[id] + 1]
    /\ UNCHANGED <<pc, req, article, exc, tasks, nextCall, down, calcEnabled,
                   calcReturned, retry, ollama, validation, talk>>

UpdateNext ==
    \E id \in Ids, status \in {None, "running"},
       progress \in {NoProgress, ProgressQueued, ProgressTerminal},
       error \in {None, "", "Unsupported source type"}, finished \in BOOLEAN :
        UpdateJobCall(id, status, progress, error, finished)

UpdateSpec == UpdateInit /\ [][UpdateNext]_vars

\* ------------------------------------------------------- validate_article
\* validate_article taken by itself. A text is the sequence of its lines, a
\* line the number of its words: 0 is a blank line.
WordCounts == {0, 1, 40, 50, 51, 149, 150, 160, 199, 200, 9950, 10001}

LineSeqs == UNION {[1..n -> WordCounts] : n \in 0..MaxLines}

RECURSIVE SumSeq(_)
SumSeq(q) == IF q = <<>> THEN 0 ELSE Head(q) + SumSeq(Tail(q))

\* words = cleaned.split(); lines = [line.strip() for line in
\* cleaned.splitlines() if line.strip()]; body = "\n".join(lines[1:]):
\* what validate_article measures of the text.
Measure(text) ==
    LET lines == SelectSeq(text, LAMBDA n : n > 0)
    IN  Text(SumSeq(text), Len(lines),
             IF lines = <<>> THEN 0 ELSE SumSeq(Tail(lines)))

ValidateInit ==
    \E t \in LineSeqs :
        /\ validation = [text |-> t, pc |-> "L9", outcome |-> None]
        /\ talk = NoTalk
        /\ update = NoUpdate
        /\ calcEnabled = {}
        /\ calcReturned = NoCall
        /\ retry = NoRetry
        /\ ollama = NoOllama
        /\ jobs = <<>>
        /\ artifacts = [j \in JobIds |-> <<>>]
        /\ clock = [j \in JobIds |-> 0]
        /\ finishedWrites = [j \in JobIds |-> 0]
        /\ pc = [j \in JobIds |-> "none"]
        /\ req = [j \in JobIds |-> NoRequest]
        /\ article = [j \in JobIds |-> UrlPayload]
        /\ exc = [j \in JobIds |-> None]
        /\ tasks = [j \in JobIds |-> <<>>]
        /\ nextCall = [j \in JobIds |-> 0]
        /\ down = [j \in JobIds |-> {}]

ValidateIdle ==
    UNCHANGED <<jobs, artifacts, clock, finishedWrites, pc, req, article, exc,
                tasks, nextCall, down, calcEnabled, calcReturned, retry,
                ollama, talk, update>>

\* return headline, body
ValidateReturns ==
    /\ validation.pc = "L9"
    /\ ValidateArticle(Measure(validation.text)) = None
    /\ validation' = [validation EXCEPT !.pc = "returned"]
    /\ ValidateIdle

\* raise ValidationError(...)
ValidateRaises ==
    /\ validation.pc = "L9"
    /\ ValidateArticle(Measure(validation.text)) # None
    /\ validation' = [validation EXCEPT
                         !.pc = "raised",
                         !.outcome = ValidateArticle(Measure(validation.text))]
    /\ ValidateIdle

ValidateNext == ValidateReturns \/ ValidateRaises

ValidateSpec == ValidateInit /\ [][ValidateNext]_vars

\* ----------------------------------------------------------- any caller
\* The job manager under a caller that may pass any id to start_analysis
\* and queries while workers run; several workers run at the same time.
CallerSourceTypes == {"paste", "url", "ftp"}

CallerTexts == {Text(MinWords, 2, 190)}

CallerPages == {Text(250, 1, 0)}

CallerUrlErrors == {"HTTPError"}

CallerDownSets == {{}}

CallerFastModes == {TRUE}

CallerInit ==
    /\ jobs = <<>>
    /\ artifacts = [j \in Ids |-> <<>>]
    /\ clock = [j \in Ids |-> 0]
    /\ finishedWrites = [j \in Ids |-> 0]
    /\ pc = [j \in Ids |-> "none"]
    /\ req = [j \in Ids |-> NoRequest]
    /\ article = [j \in Ids |-> UrlPayload]
    /\ exc = [j \in Ids |-> None]
    /\ tasks = [j \in Ids |-> <<>>]
    /\ nextCall = [j \in Ids |-> 0]
    /\ down = [j \in Ids |-> {}]
    /\ calcEnabled = {}
    /\ calcReturned = NoCall
    /\ validation = NoValidation
    /\ talk = NoTalk
    /\ update = NoUpdate
    /\ retry = NoRetry
    /\ ollama = NoOllama

CallerNext ==
    \E j \in Ids :
        \/ CreateJob(j)
        \/ \E st \in CallerSourceTypes, p \in CallerTexts \cup {UrlPayload},
              us \in UseStyleFlags, au \in Audiences, fm \in CallerFastModes :
                /\ (st = "url") = (p = UrlPayload)
                /\ StartAnalysis(j, st, p, us, au, fm)
        \/ \E st \in CallerSourceTypes, p \in CallerTexts \cup {UrlPayload},
              us \in UseStyleFlags, au \in Audiences, fm \in CallerFastModes :
                /\ (st = "url") = (p = UrlPayload)
                /\ StartAnalysisUnknownId(j, st, p, us, au, fm)
        \/ GetJob(j)
        \/ ListArtifacts(j)
        \/ MarkRunning(j)
        \/ MarkResolving(j)
        \/ ResolvePayload(j)
        \/ \E page \in CallerPages : ResolveUrl(j, page)
        \/ \E text \in CallerUrlErrors : ResolveUrlFails(j, text)
        \/ ResolveUnsupported(j)
        \/ Validate(j)
        \/ InsertArticle(j)
        \/ MarkAnalyzing(j)
        \/ Analyze(j)
        \/ AnalyzeFails(j)
        \/ InsertAnalysis(j)
        \/ MarkGenerating(j)
        \/ \E d \in CallerDownSets : InsertOptions(j, d)
        \/ SkipPipeline(j)
        \/ AppendPipelineTask(j)
        \/ PipelineCallRaises(j)
        \/ ExceptHandler(j)

CallerSpec == CallerInit /\ [][CallerNext]_vars

\* ----------------------------------------------------------------- reader
\* steps of _render_progress_steps: label, artifact types, error type.
ProgressSteps ==
    { [label |-> "Analysis", types |-> {"analysis"}, error |-> "error_analysis"],
      [label |-> "Video", types |-> {"video_branded", "video_raw"},
       error |-> "error_video"],
      [label |-> "Audio", types |-> {"audiogram", "audio"}, error |-> "error_audio"],
      [label |-> "Social", types |-> {"social"}, error |-> "error_social"],
      [label |-> "Hindi", types |-> {"translation"}, error |-> "error_translation"],
      [label |-> "SEO", types |-> {"seo"}, error |-> "error_seo"],
      [label |-> "QA", types |-> {"qa"}, error |-> "error_qa"] }

\* {artifact["type"]: artifact for artifact in artifacts}.get("options",
\* {}).get("metadata", {}).get("fast_mode"), as bool: the flag of the last
\* options row, False without one.
OptionsFastMode(rows) ==
    LET at == {i \in 1..Len(rows) : rows[i].type = "options"}
    IN  IF at = {} THEN FALSE
        ELSE rows[CHOOSE i \in at : \A k \in at : k <= i].metadata.fast_mode

\* _enabled_pipelines_from_artifacts: the labels of the enabled steps.
EnabledPipelinesFromArtifacts(rows) ==
    IF OptionsFastMode(rows)
       THEN {"Video", "Social", "SEO", "QA", "Analysis"}
       ELSE {"Video", "Audio", "Social", "Hindi", "SEO", "QA", "Analysis"}

\* The pipelines whose step the reader takes as enabled: the pipeline of a
\* step is the one whose error type the step names.
ReaderEnabled(id) ==
    {n \in Pipelines :
        \E s \in ProgressSteps :
            /\ s.label \in EnabledPipelinesFromArtifacts(FetchArtifacts(id))
            /\ s.error = ErrorType(n)}

\* ------------------------------------------------------ claim vocabulary
PipelineTypes(name) ==
    {PipelineArtifacts(name)[i] : i \in 1..Len(PipelineArtifacts(name))}

ErrorTypes == {ErrorType(n) : n \in Pipelines}

AllPipelineTypes == UNION {PipelineTypes(n) : n \in Pipelines}

Finished(j) == pc[j] = "done"

AnalysisPersisted(j) == "analysis" \in ArtifactTypes(j)

\* Rows of job j whose type is error_<name>.
ErrorRows(j) ==
    {i \in 1..Len(FetchArtifacts(j)) : FetchArtifacts(j)[i].type \in ErrorTypes}

\* The pipeline whose call raised, if the worker left the fan-out that way.
CallRaised(j) ==
    IF pc[j] \in {"L198", "done"} /\ nextCall[j] \in 1..Len(LaunchOrder)
       THEN {LaunchOrder[nextCall[j]]} ELSE {}

\* Enabled pipelines that raise in job j: those whose collaborators are
\* down and the one whose call raised, with the text of the exception.
Raising(j) == (down[j] \cap Enabled(j)) \cup CallRaised(j)

RaisedText(j, name) ==
    IF name \in CallRaised(j) THEN TypeErrorText(name)
                              ELSE ProviderErrorText(name)

RECURSIVE JoinFrom(_, _)
\* "; ".join of the messages of the raising pipelines, in launch order,
\* from position i on.
JoinFrom(j, i) ==
    IF i > Len(LaunchOrder) THEN ""
    ELSE IF LaunchOrder[i] \notin Raising(j) THEN JoinFrom(j, i + 1)
    ELSE LET msg  == ErrorMessage(LaunchOrder[i], RaisedText(j, LaunchOrder[i]))
             rest == JoinFrom(j, i + 1)
         IN IF rest = "" THEN msg ELSE msg \o "; " \o rest

\* ------------------------------------------------------------------ claims
\* C1: every value written to a job's progress is greater than or equal to
\* the value stored before the write, over every step of the orchestrator.
C1_ProgressNonDecreasing ==
    [][\A j \in DOMAIN jobs : jobs'[j].progress >= jobs[j].progress]_vars

\* A job that went through every checkpoint 5, 15, 25, 30 and the terminal
\* 100.
C1_Witness ==
    \E j \in DOMAIN jobs :
        /\ jobs[j].progress = ProgressTerminal
        /\ "options" \in ArtifactTypes(j)

\* C2: finished_at is unset while the status is queued, running or
\* generating; it has been written exactly once, by the update that entered
\* the terminal status, in every terminal status; a terminal job has
\* progress 100.
C2_FinishedOnceOnTerminal ==
    \A j \in DOMAIN jobs :
        /\ jobs[j].status \in {"queued", "running", "generating"} \cup TerminalStatuses
        /\ jobs[j].status \in {"queued", "running", "generating"} =>
              jobs[j].finished_at = NoTime /\ finishedWrites[j] = 0
        /\ jobs[j].status \in TerminalStatuses =>
              /\ jobs[j].finished_at # NoTime
              /\ finishedWrites[j] = 1
              /\ jobs[j].progress = ProgressTerminal

C2_Witness ==
    \E j \in DOMAIN jobs :
        /\ jobs[j].status \in TerminalStatuses
        /\ finishedWrites[j] = 1
        /\ jobs[j].finished_at = clock[j]

\* C3: a job whose enabled pipelines all succeed (no collaborator down, in
\* full and in fast mode) ends completed, with no error and no error_<name>
\* artifact.
C3_AllSucceedCompleted ==
    \A j \in DOMAIN jobs :
        (Finished(j) /\ AnalysisPersisted(j) /\ down[j] \cap Enabled(j) = {}) =>
            /\ jobs[j].status = "completed"
            /\ jobs[j].error = None
            /\ ErrorRows(j) = {}

\* C4: a job of which exactly one enabled pipeline raises ends
\* completed_with_errors with exactly one error_<name> artifact, named after
\* that pipeline.
C4_OneFailureOneErrorArtifact ==
    \A j \in DOMAIN jobs :
        (Finished(j) /\ AnalysisPersisted(j)
            /\ Cardinality(down[j] \cap Enabled(j)) = 1) =>
            /\ jobs[j].status = "completed_with_errors"
            /\ Cardinality(ErrorRows(j)) = 1
            /\ \A i \in ErrorRows(j) :
                 \E n \in down[j] \cap Enabled(j) :
                    FetchArtifacts(j)[i].type = ErrorType(n)

\* C5: a job ends failed exactly when resolution, validation or the analysis
\* failed; then no pipeline artifact and no error_<name> artifact exists and
\* error is the exception message; a job whose analysis succeeded ends
\* completed or completed_with_errors.
C5_FailedOnlyBeforeFanOut ==
    \A j \in DOMAIN jobs :
        Finished(j) =>
            /\ (jobs[j].status = "failed") = ~AnalysisPersisted(j)
            /\ jobs[j].status = "failed" =>
                 /\ ArtifactTypes(j) \cap (AllPipelineTypes \cup ErrorTypes) = {}
                 /\ jobs[j].error = exc[j]
            /\ AnalysisPersisted(j) =>
                 jobs[j].status \in {"completed", "completed_with_errors"}

\* C6: every enabled pipeline that raises has its error_<name> artifact, and
\* every other enabled pipeline of the job has run and has its artifacts
\* persisted.
C6_FailureIsolated ==
    \A j \in DOMAIN jobs :
        (Finished(j) /\ Raising(j) # {}) =>
            /\ \A n \in Raising(j) : ErrorType(n) \in ArtifactTypes(j)
            /\ \A m \in Enabled(j) \ Raising(j) :
                 PipelineTypes(m) \subseteq ArtifactTypes(j)

C8_AnalysisBeforePipelines ==
    \A j \in JobIds :
        (\/ tasks[j] # <<>>
         \/ nextCall[j] > 0
         \/ pc[j] = "L127"
         \/ ArtifactTypes(j) \cap (AllPipelineTypes \cup ErrorTypes) # {}) =>
            /\ AnalysisPersisted(j)
            /\ FetchArtifacts(j)[2].type = "analysis"

C8_Witness ==
    \E j \in JobIds : Len(tasks[j]) >= 2 /\ AnalysisPersisted(j)

\* C9: a new job is queued, and a status only changes along
\* queued -> running -> generating -> terminal or running -> failed; a
\* terminal status is never replaced.
C9_StatusOrder ==
    [][/\ \A j \in DOMAIN jobs' \ DOMAIN jobs : jobs'[j].status = "queued"
       /\ \A j \in DOMAIN jobs :
            \/ jobs'[j].status = jobs[j].status
            \/ <<jobs[j].status, jobs'[j].status>> \in
                 ({<<"queued", "running">>, <<"running", "generating">>,
                   <<"running", "failed">>}
                  \cup ({"generating"} \X TerminalStatuses))]_vars

\* A job that took the whole path queued, running, generating, terminal.
C9_Witness ==
    \E j \in DOMAIN jobs :
        /\ jobs[j].status = "failed"
        /\ Len(tasks[j]) > 0
        /\ Finished(j)

\* C10: a job with raising pipelines ends completed_with_errors, its error
\* being the "; "-joined "<name> pipeline failed: <text>" messages of the
\* raising pipelines, in launch order.
C10_ErrorSummary ==
    \A j \in DOMAIN jobs :
        (Finished(j) /\ AnalysisPersisted(j) /\ Raising(j) # {}) =>
            /\ jobs[j].status = "completed_with_errors"
            /\ jobs[j].error = JoinFrom(j, 1)

\* Source kinds _resolve_article_text accepts.
SupportedSourceTypes == {"paste", "url", "upload"}

\* The worker of job j is handling an input error: the ValueError of an
\* unsupported source kind or the ValidationError of the resolved text.
InputError(j) ==
    \/ /\ req[j].source_type \notin SupportedSourceTypes
       /\ exc[j] = "Unsupported source type: " \o req[j].source_type
    \/ /\ req[j].source_type \in SupportedSourceTypes
       /\ ValidateArticle(article[j]) # None
       /\ exc[j] = ValidateArticle(article[j])

\* C11: an unsupported source kind and a validation failure each lead from
\* the one call that raised straight to the except clause (the call is not
\* repeated and nothing is written in between), which takes the job from
\* running to failed with error set to the exception message; no analysis
\* and no pipeline exists, and the job made four repository statements in
\* all (insert, running, progress 15, failed).
C11_InputErrorFailsAtOnce ==
    [][\A j \in JobIds :
         /\ (pc[j] = "L100" /\ pc'[j] # "L100"
               /\ req[j].source_type \notin SupportedSourceTypes) =>
                 /\ pc'[j] = "L198"
                 /\ exc'[j] = "Unsupported source type: " \o req[j].source_type
                 /\ jobs'[j] = jobs[j] /\ clock'[j] = clock[j]
         /\ (pc[j] = "L101" /\ pc'[j] # "L101"
               /\ ValidateArticle(article[j]) # None) =>
                 /\ pc'[j] = "L198"
                 /\ exc'[j] = ValidateArticle(article[j])
                 /\ jobs'[j] = jobs[j] /\ clock'[j] = clock[j]
         /\ (pc[j] = "L198" /\ pc'[j] # "L198" /\ InputError(j)) =>
                 /\ pc'[j] = "done"
                 /\ jobs[j].status = "running"
                 /\ jobs'[j].status = "failed"
                 /\ jobs'[j].error = exc[j]
                 /\ clock'[j] = 4
                 /\ artifacts'[j] = <<>>
                 /\ tasks'[j] = <<>> /\ nextCall'[j] = 0]_vars

\* A job failed by the validation of an uploaded or pasted text.
C11_Witness ==
    \E j \in DOMAIN jobs :
        /\ Finished(j)
        /\ jobs[j].status = "failed"
        /\ req[j].source_type \in {"paste", "upload"}
        /\ jobs[j].error = ValidateArticle(article[j])
        /\ jobs[j].error # None

\* The completion markers as the progress rule states them.
StatedMarkers ==
    [n \in Pipelines |->
        IF n = "video" THEN {"video_branded", "video_raw"}
        ELSE IF n = "audio" THEN {"audiogram", "audio"}
        ELSE {n}]

\* Enabled pipelines with at least one marker among the types.
StatedCompleted(types, enabled) ==
    {n \in enabled : StatedMarkers[n] \cap types # {}}

RowTypes(rows) == {rows[i].type : i \in 1..Len(rows)}

\* C12: every call of the progress model, over every enabled set of size
\* 0..6 and every artifact list, returns 30 + floor(60 * completed /
\* max(1, T)); T = 4 with 2 completed gives 60, and T = 0 gives 30.
C12_ProgressFormula ==
    calcReturned # NoCall =>
        LET T == Cardinality(calcEnabled)
            completed ==
                Cardinality(StatedCompleted(RowTypes(calcReturned.rows), calcEnabled))
        IN  /\ T \in 0..6
            /\ calcReturned.value = 30 + ((60 * completed) \div (IF T < 1 THEN 1 ELSE T))
            /\ (T = 4 /\ completed = 2) => calcReturned.value = 60
            /\ T = 0 => calcReturned.value = 30

\* A call over four enabled pipelines of which two have a marker, one of
\* them by the second marker of video alone.
C12_Witness ==
    /\ calcReturned # NoCall
    /\ Cardinality(calcEnabled) = 4
    /\ Cardinality(StatedCompleted(RowTypes(calcReturned.rows), calcEnabled)) = 2
    /\ "video_raw" \in RowTypes(calcReturned.rows)
    /\ "video_branded" \notin RowTypes(calcReturned.rows)
    /\ "video" \in calcEnabled
    /\ calcReturned.value = 60

\* The rows of list old are the first rows of list new.
IsPrefix(old, new) ==
    /\ Len(old) <= Len(new)
    /\ \A i \in 1..Len(old) : new[i] = old[i]

\* C13: two consecutive calls of the progress model return the same value
\* when the artifact list is unchanged between them, and when the rows
\* inserted between them bring no new type (duplicates) or only types that
\* are no completion marker of an enabled pipeline.
C13_ProgressStateless ==
    [][(calcReturned # NoCall /\ calcReturned' # NoCall) =>
         LET old   == calcReturned.rows
             new   == calcReturned'.rows
             added == RowTypes(new) \ RowTypes(old)
         IN  (/\ IsPrefix(old, new)
              /\ \A n \in calcEnabled : StatedMarkers[n] \cap added = {}) =>
                 calcReturned'.value = calcReturned.value]_vars

\* A call over a list that holds the marker of an enabled pipeline twice,
\* the second of the two rows inserted after the first was there.
C13_Witness ==
    /\ calcReturned # NoCall
    /\ calcReturned.rows = FetchArtifacts(FanOutJob)
    /\ "seo" \in calcEnabled
    /\ calcReturned.value > ProgressBase
    /\ \E i, k \in 1..Len(calcReturned.rows) :
          /\ i < k
          /\ calcReturned.rows[i].type = "seo"
          /\ calcReturned.rows[k].type = "seo"

\* Tasks of a list that have resumed after "await coroutine" and not yet
\* returned.
MidRun(T) ==
    {i \in 1..Len(T) : T[i].state \in {"persisting", "failing", "reporting"}}

\* Tasks of a list whose pipeline returned and whose rows and progress are
\* written.
Completed(T) ==
    {i \in 1..Len(T) : T[i].state = "done" /\ T[i].result = None}

\* C14: while a task persists its rows and writes the progress no other
\* task of the job takes a step; every progress write of the fan-out is the
\* progress rule over all rows persisted before it; and whenever no task is
\* between its read and its write, the stored progress is
\* 30 + floor(60 * k / T) for the k pipelines that have completed.
C14_NoLostProgressUpdate ==
    [][\A j \in DOMAIN jobs :
         /\ \A i \in MidRun(tasks[j]) :
               \A m \in (1..Len(tasks[j])) \ {i} : tasks'[j][m] = tasks[j][m]
         /\ (pc'[j] = "L182" /\ jobs'[j] # jobs[j]) =>
               jobs'[j].progress =
                  30 + ((60 * Cardinality(StatedCompleted(ArtifactTypes(j), Enabled(j))))
                          \div Cardinality(Enabled(j)))
         /\ (pc'[j] = "L182" /\ MidRun(tasks'[j]) = {}) =>
               jobs'[j].progress =
                  30 + ((60 * Cardinality(Completed(tasks'[j])))
                          \div Cardinality(Enabled(j)))]_vars

\* Two pipelines were awaited at the same time and both have completed,
\* while a third is still awaited.
C14_Witness ==
    \E j \in DOMAIN jobs :
        /\ pc[j] = "L182"
        /\ MidRun(tasks[j]) = {}
        /\ Cardinality(Completed(tasks[j])) = 2
        /\ \E i \in 1..Len(tasks[j]) : tasks[j][i].state = "awaiting"
        /\ jobs[j].progress = 30 + (120 \div Cardinality(Enabled(j)))

\* C15: in every state in which a job is generating or in a terminal
\* status, the enabled pipelines a reader derives from the job's persisted
\* artifacts are those the orchestrator derives from the fast_mode flag the
\* job was started with.
C15_ReaderEnabledAgrees ==
    \A j \in DOMAIN jobs :
        jobs[j].status \in {"generating"} \cup TerminalStatuses =>
            ReaderEnabled(j) = EnabledPipelines(req[j].fast_mode)

\* The agreement from the insert of the options artifact on.
C15_AgreesOncePersisted ==
    \A j \in DOMAIN jobs :
        "options" \in ArtifactTypes(j) =>
            ReaderEnabled(j) = EnabledPipelines(req[j].fast_mode)

\* The first n calls of func each raised an exception the wrapper catches.
AllCaught(n) ==
    \A i \in 1..n :
        /\ retry.calls[i] \in ExceptionKinds
        /\ BaseClasses(retry.calls[i]) \cap retry.exceptions # {}

\* The sleeps of k failed attempts: d, 2d, ..., d * 2^(k-1).
Backoff(d, k) == [i \in 1..k |-> d * (2 ^ (i - 1))]

\* C16: when func fails with a matching exception on its first k calls
\* (k < N) and then returns, the wrapper has returned that value after
\* exactly k + 1 calls and exactly k sleeps of d, 2d, ..., d * 2^(k-1), in
\* that order; with N = 3 and k = 2 the sleeps are d then 2d.
C16_RetryThenSuccess ==
    \A k \in 0..(retry.attempts - 1) :
        (/\ Len(retry.calls) > k
         /\ AllCaught(k)
         /\ retry.calls[k + 1] = "value") =>
            /\ retry.pc = "returned"
            /\ retry.outcome = [kind |-> "value", call |-> k + 1]
            /\ Len(retry.calls) = k + 1
            /\ retry.sleeps = Backoff(retry.base_delay, k)
            /\ (retry.attempts = 3 /\ k = 2) =>
                  retry.sleeps = <<retry.base_delay, 2 * retry.base_delay>>

\* Three failures, then the value, on a budget of four attempts.
C16_Witness ==
    /\ retry.pc = "returned"
    /\ retry.attempts = 4
    /\ Len(retry.calls) = 4
    /\ retry.sleeps = <<8, 16, 32>>
    /\ retry.outcome.call = 4

\* C17: when func fails with a matching exception on all N attempts, the
\* wrapper has called it exactly N times, slept exactly N - 1 times (not
\* after the last failure) and raised the exception of the N-th call.
C17_RetryExhausted ==
    (Len(retry.calls) >= retry.attempts /\ AllCaught(retry.attempts)) =>
        /\ retry.pc = "raised"
        /\ Len(retry.calls) = retry.attempts
        /\ Len(retry.sleeps) = retry.attempts - 1
        /\ retry.outcome =
              [kind |-> retry.calls[retry.attempts], call |-> retry.attempts]

\* Three attempts failed with two different matching exceptions; the last
\* is raised.
C17_Witness ==
    /\ retry.pc = "raised"
    /\ retry.attempts = 3
    /\ retry.calls = <<"OllamaError", "HTTPError", "OllamaError">>
    /\ retry.sleeps = <<8, 16>>
    /\ retry.outcome = [kind |-> "OllamaError", call |-> 3]

\* C18: when a call of func raises an exception that is no instance of the
\* configured classes, the wrapper has raised that exception: the call is
\* the last one, no sleep follows it, whatever attempts remain.
C18_NonMatchingPropagates ==
    \A i \in 1..Len(retry.calls) :
        (/\ retry.calls[i] \in ExceptionKinds
         /\ BaseClasses(retry.calls[i]) \cap retry.exceptions = {}) =>
            /\ retry.pc = "raised"
            /\ retry.outcome = [kind |-> retry.calls[i], call |-> i]
            /\ Len(retry.calls) = i
            /\ Len(retry.sleeps) = i - 1

\* _create of create_talk: retried once on HTTPError, then DIDError of
\* _headers() leaves the wrapper with two attempts left.
C18_Witness ==
    /\ retry.pc = "raised"
    /\ retry.exceptions = {"HTTPError"}
    /\ retry.attempts = 3
    /\ retry.calls = <<"HTTPError", "DIDError">>
    /\ retry.sleeps = <<8>>
    /\ retry.outcome = [kind |-> "DIDError", call |-> 2]

\* Calls of chat whose POST is in flight.
InFlight == {c \in DOMAIN ollama.callers : ollama.callers[c] = "posting"}

\* C19: every call of chat goes through the one semaphore of the module,
\* and the Ollama requests in flight are at most max(1, OLLAMA_CONCURRENCY)
\* at every moment.
C19_OllamaConcurrencyBound ==
    /\ DOMAIN ollama.sems \subseteq {"_OLLAMA_SEMAPHORE"}
    /\ Cardinality(DOMAIN ollama.sems) <= 1
    /\ Cardinality(InFlight) <= (IF ollama.limit < 1 THEN 1 ELSE ollama.limit)

\* With OLLAMA_CONCURRENCY=2, two requests are in flight and a third call
\* waits for the semaphore.
C19_Witness ==
    /\ ollama.limit = 2
    /\ Cardinality(InFlight) = 2
    /\ \E c \in DOMAIN ollama.callers : ollama.callers[c] = "waiting"

C20_OnlyErrorArtifact ==
    \A j \in DOMAIN jobs :
        \A i \in 1..Len(tasks[j]) :
            (tasks[j][i].state = "done" /\ tasks[j][i].result # None) =>
                /\ ErrorType(tasks[j][i].name) \in ArtifactTypes(j)
                /\ PipelineTypes(tasks[j][i].name) \cap ArtifactTypes(j) = {}

\* C21: every artifact row carries the id of a row of table jobs, whatever
\* ids the caller passes to start_analysis.
C21_ArtifactsHaveJob ==
    \A id \in DOMAIN artifacts : FetchArtifacts(id) # <<>> => id \in DOMAIN jobs

\* C22: over every step of the job manager, each job's artifact list keeps
\* the rows it had, unchanged and in their places, with new rows only at
\* its end, and every job record that exists still exists.
C22_ArtifactsOnlyGrow ==
    [][/\ \A id \in DOMAIN artifacts : IsPrefix(artifacts[id], artifacts'[id])
       /\ DOMAIN jobs \subseteq DOMAIN jobs']_vars

\* A job that ended with its article, analysis and options rows in place
\* while the worker of another job had inserted rows of its own.
C22_Witness ==
    \E j, k \in DOMAIN jobs :
        /\ j # k
        /\ Finished(j)
        /\ RowTypes(FetchArtifacts(j)) = {"article", "analysis", "options"}
        /\ Len(FetchArtifacts(j)) = 3
        /\ Len(FetchArtifacts(k)) >= 2
        /\ ~Finished(k)

\* The step is one of the worker thread started for id j.
WorkerStep(j) ==
    /\ pc[j] \notin {"none", "created"}
    /\ <<pc[j], nextCall[j], tasks[j], exc[j], article[j], clock[j]>>' #
          <<pc[j], nextCall[j], tasks[j], exc[j], article[j], clock[j]>>

\* The step is a call of create_job or of start_analysis for id j.
CallerStep(j) == pc[j] \in {"none", "created"} /\ pc'[j] # pc[j]

\* C23: with several workers running, a job's record changes only in a
\* step of the one worker started for its id; a step of the worker of one
\* id leaves the record and the artifact list of every other id as they
\* were; and a step that is no worker's and no create_job or start_analysis
\* call (get_job, list_artifacts) changes no record and no artifact list.
C23_OnlyOwnWorkerWrites ==
    [][/\ \A k \in DOMAIN jobs : jobs'[k] # jobs[k] => WorkerStep(k)
       /\ \A j \in DOMAIN pc :
            WorkerStep(j) =>
                /\ DOMAIN jobs' = DOMAIN jobs
                /\ \A k \in DOMAIN jobs \ {j} : jobs'[k] = jobs[k]
                /\ \A k \in DOMAIN artifacts \ {j} : artifacts'[k] = artifacts[k]
       /\ (\A j \in DOMAIN pc : ~WorkerStep(j) /\ ~CallerStep(j)) =>
                jobs' = jobs /\ artifacts' = artifacts]_vars

\* Two jobs whose workers run at the same time, one generating and one
\* still resolving its input.
C23_Witness ==
    \E j, k \in DOMAIN jobs :
        /\ j # k
        /\ jobs[j].status = "generating"
        /\ jobs[k].status = "running" /\ jobs[k].progress = ProgressResolving
        /\ pc[j] = "L127" /\ pc[k] = "L100"

\* C24: a job whose worker has been started, and a job whose status is
\* running or generating, eventually has a terminal status.
C24_EventuallyTerminal ==
    \A j \in JobIds :
        (\/ pc[j] = "L96"
         \/ j \in DOMAIN jobs /\ jobs[j].status \in {"running", "generating"}) ~>
            (j \in DOMAIN jobs /\ jobs[j].status \in TerminalStatuses)

\* A fast-mode job that was generating and has reached its terminal status.
C24_Witness ==
    \E j \in DOMAIN jobs :
        /\ Finished(j)
        /\ req[j].fast_mode
        /\ jobs[j].status \in TerminalStatuses
        /\ jobs[j].error = TypeErrorText("seo")
        /\ nextCall[j] = 5

\* All words of a text, its non-empty lines, and the words after the first
\* of them.
WordsOf(text) == SumSeq(text)

NonEmptyLines(text) == {i \in 1..Len(text) : text[i] > 0}

BodyWords(text) ==
    LET first == CHOOSE i \in NonEmptyLines(text) :
                     \A k \in NonEmptyLines(text) : i <= k
    IN  IF NonEmptyLines(text) = {} THEN 0
        ELSE SumSeq(SubSeq(text, first + 1, Len(text)))

\* C25: validate_article returns exactly when the text has between 200 and
\* 10,000 words, at least two non-empty lines and at least 50 words after
\* the first of them, and raises a ValidationError otherwise; a 40-word
\* body and a text of 10,001 words are rejected, a 200-word body is
\* accepted.
C25_ValidateArticleBounds ==
    validation.pc \in {"returned", "raised"} =>
        LET t == validation.text
        IN  /\ (validation.pc = "returned") =
                  (/\ WordsOf(t) >= 200 /\ WordsOf(t) <= 10000
                   /\ Cardinality(NonEmptyLines(t)) >= 2
                   /\ BodyWords(t) >= 50)
            /\ (validation.pc = "raised") = (validation.outcome # None)
            /\ BodyWords(t) = 40 => validation.pc = "raised"
            /\ WordsOf(t) = 10001 => validation.pc = "raised"
            /\ (BodyWords(t) = 200 /\ WordsOf(t) <= 10000) =>
                  validation.pc = "returned"

\* A text of exactly 200 words, 50 of them after a blank line that follows
\* the headline, is accepted.
C25_Witness ==
    /\ validation.pc = "returned"
    /\ validation.text = <<150, 0, 50>>

\* C26: the stored status and progress agree in every state: queued with 0,
\* running with 5, 15 or 25, generating with a value from 30 to 90, a
\* terminal status with 100; and a generating job none of whose enabled
\* pipelines has a completion marker among its artifacts has progress 30,
\* with four and with six pipelines enabled.
C26_StatusProgressAgree ==
    \A j \in DOMAIN jobs :
        /\ jobs[j].status = "queued" => jobs[j].progress = 0
        /\ jobs[j].status = "running" => jobs[j].progress \in {5, 15, 25}
        /\ jobs[j].status = "generating" => jobs[j].progress \in 30..90
        /\ jobs[j].status \in TerminalStatuses => jobs[j].progress = 100
        /\ (/\ jobs[j].status = "generating"
            /\ StatedCompleted(ArtifactTypes(j), Enabled(j)) = {}) =>
                jobs[j].progress = 30

\* A generating job in fast mode, its options persisted and three of its
\* four pipeline tasks created, none of which has run.
C26_Witness ==
    \E j \in DOMAIN jobs :
        /\ jobs[j].status = "generating"
        /\ jobs[j].progress = 30
        /\ Cardinality(Enabled(j)) = 4
        /\ Len(tasks[j]) = 2
        /\ pc[j] = "L127"
        /\ StatedCompleted(ArtifactTypes(j), Enabled(j)) = {}

\* Pipelines for which the worker of job j holds a _run_pipeline task.
TaskNames(j) == {tasks[j][i].name : i \in 1..Len(tasks[j])}

\* C27: a job that got past its analysis has had one task for each pipeline
\* of the enabled set of its fast_mode flag and for no other, each once,
\* and nothing of a pipeline outside that set (no artifact, no error_<name>
\* artifact) is among its artifacts.
C27_LaunchedIsEnabled ==
    \A j \in DOMAIN jobs :
        (Finished(j) /\ AnalysisPersisted(j)) =>
            /\ TaskNames(j) = EnabledPipelines(req[j].fast_mode)
            /\ Len(tasks[j]) = Cardinality(TaskNames(j))
            /\ \A n \in Pipelines \ EnabledPipelines(req[j].fast_mode) :
                  ArtifactTypes(j) \cap (PipelineTypes(n) \cup {ErrorType(n)}) = {}

\* What holds of the tasks in every state: they are tasks of enabled
\* pipelines, one for each at most, and nothing of a pipeline outside the
\* enabled set is persisted.
C27_NothingOutsideEnabled ==
    \A j \in DOMAIN jobs :
        /\ TaskNames(j) \subseteq EnabledPipelines(req[j].fast_mode)
        /\ Len(tasks[j]) = Cardinality(TaskNames(j))
        /\ \A n \in Pipelines \ EnabledPipelines(req[j].fast_mode) :
              ArtifactTypes(j) \cap (PipelineTypes(n) \cup {ErrorType(n)}) = {}

\* Positions in the artifact list of job j of the rows pipeline n returned.
RowsOfPipeline(j, n) ==
    {k \in 1..Len(FetchArtifacts(j)) : FetchArtifacts(j)[k].type \in PipelineTypes(n)}

\* C28: in the artifact list of a job, read in insertion order, the rows a
\* pipeline returned stand next to each other, with no row of another
\* pipeline (or any other row) between two of them, and in the order of the
\* list the pipeline returned.
C28_PipelineRowsContiguous ==
    \A j \in DOMAIN jobs :
        \A n \in Pipelines :
            LET P == RowsOfPipeline(j, n)
            IN  P # {} =>
                  LET first == CHOOSE k \in P : \A m \in P : k <= m
                  IN  /\ P = first..(first + Cardinality(P) - 1)
                      /\ \A k \in P :
                            FetchArtifacts(j)[k].type =
                                PipelineArtifacts(n)[k - first + 1]

\* Video and audio were awaited at the same time; audio returned first and
\* its three rows come before the three rows of video, which was launched
\* before it.
C28_Witness ==
    \E j \in DOMAIN jobs :
        /\ Len(FetchArtifacts(j)) >= 9
        /\ [k \in 1..6 |-> FetchArtifacts(j)[k + 3].type] =
              PipelineArtifacts("audio") \o PipelineArtifacts("video")

\* Tasks of job j whose coroutine returned an empty list: the task is done,
\* its pipeline did not raise, and none of the pipeline's rows is stored.
ReturnedEmpty(j) ==
    {i \in 1..Len(tasks[j]) :
        /\ tasks[j][i].state = "done"
        /\ tasks[j][i].name \notin down[j]
        /\ PipelineTypes(tasks[j][i].name) \cap ArtifactTypes(j) = {}}

\* C29: a pipeline that returned an empty list has no error_<name> artifact
\* and its task returned no error string; the progress model does not
\* count it, so the progress of the generating job is below 90; and the
\* job, if no pipeline raised, ends completed with progress 100.
C29_EmptyListIsSuccess ==
    \A j \in DOMAIN jobs :
        \A i \in ReturnedEmpty(j) :
            /\ tasks[j][i].result = None
            /\ ErrorType(tasks[j][i].name) \notin ArtifactTypes(j)
            /\ tasks[j][i].name \notin
                  StatedCompleted(ArtifactTypes(j), Enabled(j))
            /\ jobs[j].status = "generating" => jobs[j].progress < 90
            /\ (Finished(j) /\ down[j] \cap Enabled(j) = {}) =>
                  /\ jobs[j].status = "completed"
                  /\ jobs[j].progress = 100
                  /\ jobs[j].error = None

\* All six tasks are done, video having returned an empty list: the
\* progress stands at 80 before the terminal update.
C29_Witness ==
    \E j \in DOMAIN jobs :
        /\ pc[j] = "L182"
        /\ Len(tasks[j]) = 6
        /\ \A i \in 1..Len(tasks[j]) : tasks[j][i].state = "done"
        /\ \E i \in ReturnedEmpty(j) : tasks[j][i].name = "video"
        /\ Cardinality(ReturnedEmpty(j)) = 1
        /\ down[j] = {}
        /\ jobs[j].progress = 80

\* Calls of chat that hold a permit: the POST is in flight, or the permit
\* was handed to the waiter, which has not resumed yet.
PermitHolders ==
    {c \in DOMAIN ollama.callers : ollama.callers[c] \in {"posting", "woken"}}

\* C30: the permits available and the permits held add up to the initial
\* value max(1, OLLAMA_CONCURRENCY) in every state, a permit being held
\* only by a request whose POST is in flight (or that was just handed the
\* permit): a call whose attempt failed holds none while it backs off, nor
\* does a call that returned or gave up; and with no request in flight the
\* available permits are the initial value again.
C30_NoPermitLeak ==
    \A name \in DOMAIN ollama.sems :
        LET initial == IF ollama.limit < 1 THEN 1 ELSE ollama.limit
        IN  /\ ollama.sems[name].value >= 0
            /\ ollama.sems[name].value + Cardinality(PermitHolders) = initial
            /\ PermitHolders = {} => ollama.sems[name].value = initial

\* With one permit: the first call failed and is backing off, after a
\* second failed attempt of its own the permit went to another call whose
\* POST is now in flight, and a third call has given up after three
\* attempts.
C30_Witness ==
    /\ ollama.limit = 1
    /\ \E a, b, c \in DOMAIN ollama.callers :
          /\ ollama.callers[a] = "sleeping" /\ ollama.attempt[a] = 2
          /\ ollama.callers[b] = "posting"
          /\ ollama.callers[c] = "failed" /\ ollama.attempt[c] = OllamaAttempts
    /\ ollama.sems["_OLLAMA_SEMAPHORE"].value = 0

C32_Settled == talk.data.status \in {"done", "error"}

C32_PollOutcomes ==
    /\ talk.polls <= MaxPolls
    /\ C32_Settled => talk.pc \in {"returned", "raised"}
    /\ (talk.data.status = "done" /\ talk.data.result_url \notin {None, ""})
          <=> talk.pc = "returned"
    /\ talk.pc = "returned" => talk.outcome = talk.data.result_url
    /\ (talk.data.status = "done" /\ talk.data.result_url \in {None, ""})
          => talk.outcome = "D-ID talk missing result_url"
    /\ talk.data.status = "error" => talk.outcome = "D-ID talk failed"
    /\ talk.outcome = "D-ID talk timed out"
          <=> talk.pc = "raised" /\ talk.polls = MaxPolls /\ ~C32_Settled
    /\ (talk.pc = "polling" /\ talk.polls > 0) => ~C32_Settled

C32_WaitForTalkTerminates ==
    /\ []C32_PollOutcomes
    /\ [][C32_Settled => talk'.polls = talk.polls]_vars
    /\ <>(talk.pc \in {"returned", "raised"})

C32_Witness ==
    /\ talk.pc = "raised"
    /\ talk.outcome = "D-ID talk timed out"
    /\ talk.polls = MaxPolls

\* C33: update_job changes only the fields it is given. A field passed as
\* None (status, progress, error) or finished=False leaves the stored value
\* unchanged, a call with no field is a no-op, a stored error is never
\* cleared, a call for a job id that does not exist changes nothing, and
\* every call with finished=True overwrites finished_at with the current
\* time.
C33_Given(field, none) == update[field] # none

C33_UpdateJobFrame ==
    update # NoUpdate =>
        LET id     == update.job_id
            before == update.before
        IN  /\ DOMAIN jobs = DOMAIN before
            /\ \A k \in DOMAIN before \ {id} : jobs[k] = before[k]
            /\ id \notin DOMAIN before => jobs = before
            /\ (/\ ~C33_Given("status", None)
                /\ ~C33_Given("progress", NoProgress)
                /\ ~C33_Given("error", None)
                /\ ~update.finished) => jobs = before
            /\ id \in DOMAIN before =>
                 /\ jobs[id].status =
                        IF C33_Given("status", None) THEN update.status
                        ELSE before[id].status
                 /\ jobs[id].progress =
                        IF C33_Given("progress", NoProgress) THEN update.progress
                        ELSE before[id].progress
                 /\ jobs[id].error =
                        IF C33_Given("error", None) THEN update.error
                        ELSE before[id].error
                 /\ jobs[id].finished_at =
                        IF update.finished THEN update.now
                        ELSE before[id].finished_at
                 /\ jobs[id].started_at = before[id].started_at
                 /\ before[id].error # None => jobs[id].error # None

C33_Witness ==
    /\ update # NoUpdate
    /\ update.job_id \in DOMAIN update.before
    /\ update.finished /\ update.status # None
    /\ update.progress = NoProgress /\ update.error = None
    /\ update.before[update.job_id].error # None
    /\ update.before[update.job_id].finished_at # NoTime
    /\ jobs[update.job_id].finished_at = update.now
    /\ \E k \in DOMAIN jobs : k # update.job_id

====
